---- MODULE Spec2Model ----
(***************************************************************************)
(* GraphState (src/src/lib/graph-state.ts), the structure-of-arrays graph  *)
(* arena, and the command layer built on it (CommandHistory and the        *)
(* Command classes of src/src/lib/wasm.test.ts, which holds the text of    *)
(* editor-state.ts).                                                       *)
(*                                                                         *)
(* The arena object is one record: the typed arrays are functions from     *)
(* 0..capacity-1, slots at and beyond the count keep their stale content.  *)
(* Every method is an operator from an arena (and its arguments) to the    *)
(* record [g |-> arena after the call, ret |-> returned value].            *)
(***************************************************************************)
EXTENDS Integers, Sequences, FiniteSets, TLC

VARIABLES
  graph,     \* the GraphState object
  history,   \* the CommandHistory object: undoStack, redoStack, maxHistory
  last,      \* the call just made: [op, args, ret]
  calls,     \* the Command methods the last CommandHistory call invoked
  nextId,    \* identity given to the next Command object constructed
  phase,     \* what the CommandHistory calls made so far were
  graph0     \* the arena the editing session started from

\* ------------------------------------------------------------------ bounds
\* Largest nodeCount the calls are allowed to build.
MaxNodes == 3
\* Largest edgeCount the calls are allowed to build.
MaxEdges == 2
\* Largest value of the version counter a call may start from.
MaxVersion == 6
\* Largest maxHistory handed to the CommandHistory constructor.
MaxHistoryArg == 2
\* Number of Command objects constructed and executed in one session.
MaxCmds == 4
\* Largest value of the version counter a CommandHistory call may start from.
MaxSessionVersion == 9

\* Positions handed to addNode / updateNode: the two coordinates of a point
\* differ, so that exchanging x and y is visible.
Points == {<<0, 1>>, <<2, 3>>}
\* Capacities handed to the constructor: the smallest arena, so that both
\* resizeNodes and resizeEdges run as the arena fills.
InitialCapacities == {1}
\* Index arguments tried by the calls: every valid index, and -1 and the
\* count itself as the out-of-range ones.
NodeArgs(g) == -1 .. g.nodeCount
EdgeArgs(g) == -1 .. g.edgeCount

\* Largest version at which a call of SpecOps is still made.
MaxOpsVersion == 2
\* Largest number of node rows and of edge rows of a graph that is loaded
\* and then queried (SpecQuery).
MaxQueryNodes == 4
MaxQueryEdges == 3
\* Largest number of node rows and of edge rows of a graph whose read-side
\* operations are called (SpecRead).
MaxReadNodes == 2
MaxReadEdges == 1
\* Largest number of node rows and of edge rows handed to loadFromArrow.
MaxLoadNodes == 2
MaxLoadEdges == 1
\* Capacities <<nodes, edges>> handed to the constructor in SpecOps.
OpsCapacities == {<<1, 1>>, <<2, 1>>}
\* Distances handed to autoConnectNearby: 0 joins nodes at the same position
\* only, 3 also joins the two points of Points (squared distance 8).
MaxDistances == {0, 3}

\* Largest nodeCount and edgeCount the calls of SpecFill build.
MaxFillNodes == 4
MaxFillEdges == 3
\* Capacities <<nodes, edges>> handed to the constructor in SpecFill: the
\* arenas of the tests, and the two smallest.
FillCapacities == {<<0, 0>>, <<1, 1>>, <<2, 2>>, <<10, 2>>, <<10, 10>>}

\* ------------------------------------------------------------ typed arrays
\* new Float32Array(n) / new Uint32Array(n): n zeroes.
NewArray(n) == [i \in 0 .. n - 1 |-> 0]
\* arr[i] = v on a typed array: a write outside the array is ignored.
Store(arr, i, v) == IF i \in DOMAIN arr THEN [arr EXCEPT ![i] = v] ELSE arr
\* arr[i] === v on a typed array: a read outside the array gives undefined,
\* which equals no number.
ElementIs(arr, i, v) == i \in DOMAIN arr /\ arr[i] = v
\* newArr.set(old): copies old into the front of a fresh array.
CopyInto(n, old) == [i \in 0 .. n - 1 |-> IF i \in DOMAIN old THEN old[i] ELSE 0]

\* ------------------------------------------------------------- GraphState
GraphStateNew(nodeCap, edgeCap) ==
  [nodeCount |-> 0, nodeCapacity |-> nodeCap,
   nodeX |-> NewArray(nodeCap), nodeY |-> NewArray(nodeCap),
   nodeVX |-> NewArray(nodeCap), nodeVY |-> NewArray(nodeCap),
   edgeCount |-> 0, edgeCapacity |-> edgeCap,
   edgeSource |-> NewArray(edgeCap), edgeTarget |-> NewArray(edgeCap),
   version |-> 0]

\* incrementVersion changed to raise a changed flag: version is set to 1.
incrementVersionFlag(g) == [g EXCEPT !.version = 1]

incrementVersion(g) == [g EXCEPT !.version = g.version + 1]

resizeNodes(g, newCapacity) ==
  [g EXCEPT !.nodeX = CopyInto(newCapacity, g.nodeX),
            !.nodeY = CopyInto(newCapacity, g.nodeY),
            !.nodeVX = CopyInto(newCapacity, g.nodeVX),
            !.nodeVY = CopyInto(newCapacity, g.nodeVY),
            !.nodeCapacity = newCapacity]

\* resizeEdges changed to allocate the larger arrays without copying.
resizeEdgesNoCopy(g, newCapacity) ==
  [g EXCEPT !.edgeSource = NewArray(newCapacity),
            !.edgeTarget = NewArray(newCapacity),
            !.edgeCapacity = newCapacity]

resizeEdges(g, newCapacity) ==
  [g EXCEPT !.edgeSource = CopyInto(newCapacity, g.edgeSource),
            !.edgeTarget = CopyInto(newCapacity, g.edgeTarget),
            !.edgeCapacity = newCapacity]

\* addNode changed to grow a full arena by one slot.
addNodeGrowByOne(g, x, y) ==
  LET Write(g1, idx) ==
        [g |-> incrementVersion([g1 EXCEPT !.nodeCount = idx + 1,
                                           !.nodeX = Store(g1.nodeX, idx, x),
                                           !.nodeY = Store(g1.nodeY, idx, y),
                                           !.nodeVX = Store(g1.nodeVX, idx, 0),
                                           !.nodeVY = Store(g1.nodeVY, idx, 0)]),
         ret |-> idx]
  IN Write(IF g.nodeCount >= g.nodeCapacity
           THEN resizeNodes(g, g.nodeCapacity + 1) ELSE g,
           g.nodeCount)

addNode(g, x, y) ==
  LET Write(g1, idx) ==
        [g |-> incrementVersion([g1 EXCEPT !.nodeCount = idx + 1,
                                           !.nodeX = Store(g1.nodeX, idx, x),
                                           !.nodeY = Store(g1.nodeY, idx, y),
                                           !.nodeVX = Store(g1.nodeVX, idx, 0),
                                           !.nodeVY = Store(g1.nodeVY, idx, 0)]),
         ret |-> idx]
  IN Write(IF g.nodeCount >= g.nodeCapacity
           THEN resizeNodes(g, g.nodeCapacity * 2) ELSE g,
           g.nodeCount)

\* removeEdge changed to move the source of the last edge only.
removeEdgeSourceOnly(g, edgeIdx) ==
  IF edgeIdx < 0 \/ edgeIdx >= g.edgeCount THEN [g |-> g, ret |-> FALSE]
  ELSE LET lastIdx == g.edgeCount - 1
           Shrink(g1) ==
             [g |-> incrementVersion([g1 EXCEPT !.edgeCount = g1.edgeCount - 1]),
              ret |-> TRUE]
       IN Shrink(IF edgeIdx # lastIdx
                 THEN [g EXCEPT
                         !.edgeSource = Store(g.edgeSource, edgeIdx, g.edgeSource[lastIdx])]
                 ELSE g)

removeEdge(g, edgeIdx) ==
  IF edgeIdx < 0 \/ edgeIdx >= g.edgeCount THEN [g |-> g, ret |-> FALSE]
  ELSE LET lastIdx == g.edgeCount - 1
           Shrink(g1) ==
             [g |-> incrementVersion([g1 EXCEPT !.edgeCount = g1.edgeCount - 1]),
              ret |-> TRUE]
       IN Shrink(IF edgeIdx # lastIdx
                 THEN [g EXCEPT
                         !.edgeSource = Store(g.edgeSource, edgeIdx, g.edgeSource[lastIdx]),
                         !.edgeTarget = Store(g.edgeTarget, edgeIdx, g.edgeTarget[lastIdx])]
                 ELSE g)

\* hasEdge changed to compare the stored direction only.
hasEdgeOneDirection(g, source, target) ==
  \E i \in 0 .. g.edgeCount - 1 :
     ElementIs(g.edgeSource, i, source) /\ ElementIs(g.edgeTarget, i, target)

hasEdge(g, source, target) ==
  \E i \in 0 .. g.edgeCount - 1 :
     \/ ElementIs(g.edgeSource, i, source) /\ ElementIs(g.edgeTarget, i, target)
     \/ ElementIs(g.edgeSource, i, target) /\ ElementIs(g.edgeTarget, i, source)

\* The first index the scan of findEdge stops at, or -1.
findEdge(g, source, target) ==
  LET found == {i \in 0 .. g.edgeCount - 1 :
                  \/ ElementIs(g.edgeSource, i, source) /\ ElementIs(g.edgeTarget, i, target)
                  \/ ElementIs(g.edgeSource, i, target) /\ ElementIs(g.edgeTarget, i, source)}
  IN IF found = {} THEN -1 ELSE CHOOSE i \in found : \A k \in found : i <= k

\* addEdge changed to skip the range checks on the endpoints.
addEdgeUnchecked(g, source, target) ==
  IF source = target THEN [g |-> g, ret |-> -1]
  ELSE IF hasEdge(g, source, target) THEN [g |-> g, ret |-> -1]
  ELSE LET Write(g1, idx) ==
             [g |-> incrementVersion([g1 EXCEPT !.edgeCount = idx + 1,
                                                !.edgeSource = Store(g1.edgeSource, idx, source),
                                                !.edgeTarget = Store(g1.edgeTarget, idx, target)]),
              ret |-> idx]
       IN Write(IF g.edgeCount >= g.edgeCapacity
                THEN resizeEdges(g, g.edgeCapacity * 2) ELSE g,
                g.edgeCount)

addEdge(g, source, target) ==
  IF source < 0 \/ source >= g.nodeCount THEN [g |-> g, ret |-> -1]
  ELSE IF target < 0 \/ target >= g.nodeCount THEN [g |-> g, ret |-> -1]
  ELSE IF source = target THEN [g |-> g, ret |-> -1]
  ELSE IF hasEdge(g, source, target) THEN [g |-> g, ret |-> -1]
  ELSE LET Write(g1, idx) ==
             [g |-> incrementVersion([g1 EXCEPT !.edgeCount = idx + 1,
                                                !.edgeSource = Store(g1.edgeSource, idx, source),
                                                !.edgeTarget = Store(g1.edgeTarget, idx, target)]),
              ret |-> idx]
       IN Write(IF g.edgeCount >= g.edgeCapacity
                THEN resizeEdges(g, g.edgeCapacity * 2) ELSE g,
                g.edgeCount)

\* The loop of removeEdgesForNode from index i down to 0.
RECURSIVE removeEdgesFrom(_, _, _)
removeEdgesFrom(g, nodeIdx, i) ==
  IF i < 0 THEN g
  ELSE IF g.edgeSource[i] = nodeIdx \/ g.edgeTarget[i] = nodeIdx
       THEN removeEdgesFrom(removeEdge(g, i).g, nodeIdx, i - 1)
       ELSE removeEdgesFrom(g, nodeIdx, i - 1)

\* removeEdgesForNode changed to scan from index 0 up: the edge that the
\* compaction moves into slot i is then skipped.
RECURSIVE removeEdgesUpFrom(_, _, _)
removeEdgesUpFrom(g, nodeIdx, i) ==
  IF i >= g.edgeCount THEN g
  ELSE IF g.edgeSource[i] = nodeIdx \/ g.edgeTarget[i] = nodeIdx
       THEN removeEdgesUpFrom(removeEdge(g, i).g, nodeIdx, i + 1)
       ELSE removeEdgesUpFrom(g, nodeIdx, i + 1)

removeEdgesForNodeAscending(g, nodeIdx) == removeEdgesUpFrom(g, nodeIdx, 0)

removeEdgesForNode(g, nodeIdx) == removeEdgesFrom(g, nodeIdx, g.edgeCount - 1)

\* remapNodeIndex changed to rewrite the sources only.
remapNodeIndexSourceOnly(g, oldIdx, newIdx) ==
  [g EXCEPT
     !.edgeSource = [i \in DOMAIN g.edgeSource |->
                       IF i < g.edgeCount /\ g.edgeSource[i] = oldIdx
                       THEN newIdx ELSE g.edgeSource[i]]]

remapNodeIndex(g, oldIdx, newIdx) ==
  [g EXCEPT
     !.edgeSource = [i \in DOMAIN g.edgeSource |->
                       IF i < g.edgeCount /\ g.edgeSource[i] = oldIdx
                       THEN newIdx ELSE g.edgeSource[i]],
     !.edgeTarget = [i \in DOMAIN g.edgeTarget |->
                       IF i < g.edgeCount /\ g.edgeTarget[i] = oldIdx
                       THEN newIdx ELSE g.edgeTarget[i]]]

removeNode(g, nodeIdx) ==
  IF nodeIdx < 0 \/ nodeIdx >= g.nodeCount THEN [g |-> g, ret |-> FALSE]
  ELSE LET lastIdx == g.nodeCount - 1
           Shrink(g2) ==
             [g |-> incrementVersion([g2 EXCEPT !.nodeCount = g2.nodeCount - 1]),
              ret |-> TRUE]
           Compact(g1) ==
             IF nodeIdx # lastIdx
             THEN remapNodeIndex(
                    [g1 EXCEPT !.nodeX = Store(g1.nodeX, nodeIdx, g1.nodeX[lastIdx]),
                               !.nodeY = Store(g1.nodeY, nodeIdx, g1.nodeY[lastIdx]),
                               !.nodeVX = Store(g1.nodeVX, nodeIdx, g1.nodeVX[lastIdx]),
                               !.nodeVY = Store(g1.nodeVY, nodeIdx, g1.nodeVY[lastIdx])],
                    lastIdx, nodeIdx)
             ELSE g1
       IN Shrink(Compact(removeEdgesForNode(g, nodeIdx)))

\* updateNode changed to reset the velocity, as addNode does.
updateNodeResetsVelocity(g, nodeIdx, x, y) ==
  IF nodeIdx < 0 \/ nodeIdx >= g.nodeCount THEN [g |-> g, ret |-> FALSE]
  ELSE [g |-> incrementVersion([g EXCEPT !.nodeX = Store(g.nodeX, nodeIdx, x),
                                         !.nodeY = Store(g.nodeY, nodeIdx, y),
                                         !.nodeVX = Store(g.nodeVX, nodeIdx, 0),
                                         !.nodeVY = Store(g.nodeVY, nodeIdx, 0)]),
        ret |-> TRUE]

\* updateNode changed to leave version alone.
updateNodeNoVersion(g, nodeIdx, x, y) ==
  IF nodeIdx < 0 \/ nodeIdx >= g.nodeCount THEN [g |-> g, ret |-> FALSE]
  ELSE [g |-> [g EXCEPT !.nodeX = Store(g.nodeX, nodeIdx, x),
                        !.nodeY = Store(g.nodeY, nodeIdx, y)],
        ret |-> TRUE]

updateNode(g, nodeIdx, x, y) ==
  IF nodeIdx < 0 \/ nodeIdx >= g.nodeCount THEN [g |-> g, ret |-> FALSE]
  ELSE [g |-> incrementVersion([g EXCEPT !.nodeX = Store(g.nodeX, nodeIdx, x),
                                         !.nodeY = Store(g.nodeY, nodeIdx, y)]),
        ret |-> TRUE]

\* ------------------------------------------------------ adjacency helpers
\* The values 0, 1, ..., n - 1 a for loop over an index goes through.
Indices(n) == [k \in 1 .. n |-> k - 1]

getEdgesForNode(g, nodeIdx) ==
  SelectSeq(Indices(g.edgeCount),
            LAMBDA i : g.edgeSource[i] = nodeIdx \/ g.edgeTarget[i] = nodeIdx)

getNeighbors(g, nodeIdx) ==
  LET edges == getEdgesForNode(g, nodeIdx)
  IN [k \in 1 .. Len(edges) |->
        IF g.edgeSource[edges[k]] = nodeIdx THEN g.edgeTarget[edges[k]]
        ELSE g.edgeSource[edges[k]]]

\* --------------------------------------------------------- spatial queries
\* A distance or squared distance is a pair <<n, d>> with d >= 0, standing
\* for n / d: <<n, 1>> is the number n and <<1, 0>> is Infinity. Positions
\* are integers, so sums and products of coordinates are exact.
Infinity == <<1, 0>>
Num(n) == <<n, 1>>
Times(a, b) == <<a[1] * b[1], a[2] * b[2]>>
\* a < b and a <= b.
Below(a, b) == a[1] * b[2] < b[1] * a[2]
AtMost(a, b) == a[1] * b[2] <= b[1] * a[2]

\* The loop of findNearestNode from node i on.
RECURSIVE nearestNodeFrom(_, _, _, _, _, _)
nearestNodeFrom(g, x, y, i, nearestIdx, nearestDistSq) ==
  IF i >= g.nodeCount THEN nearestIdx
  ELSE LET dx == g.nodeX[i] - x
           dy == g.nodeY[i] - y
           distSq == Num(dx * dx + dy * dy)
       IN IF Below(distSq, nearestDistSq)
          THEN nearestNodeFrom(g, x, y, i + 1, i, distSq)
          ELSE nearestNodeFrom(g, x, y, i + 1, nearestIdx, nearestDistSq)

\* findNearestNode changed to let a later node at the same distance win.
findNearestNodeLastWins(g, x, y, maxDist) ==
  LET DistSq(i) == Num((g.nodeX[i] - x) * (g.nodeX[i] - x)
                       + (g.nodeY[i] - y) * (g.nodeY[i] - y))
      near == {i \in 0 .. g.nodeCount - 1 :
                 /\ Below(DistSq(i), Times(maxDist, maxDist))
                 /\ \A k \in 0 .. g.nodeCount - 1 : AtMost(DistSq(i), DistSq(k))}
  IN IF near = {} THEN -1 ELSE CHOOSE i \in near : \A k \in near : k <= i

findNearestNode(g, x, y, maxDist) ==
  nearestNodeFrom(g, x, y, 0, -1, Times(maxDist, maxDist))

\* findNodesInRadius changed to leave out a node exactly at the radius.
findNodesInRadiusStrict(g, x, y, radius) ==
  SelectSeq(Indices(g.nodeCount),
            LAMBDA i : Below(Num((g.nodeX[i] - x) * (g.nodeX[i] - x)
                                 + (g.nodeY[i] - y) * (g.nodeY[i] - y)),
                             Times(radius, radius)))

findNodesInRadius(g, x, y, radius) ==
  SelectSeq(Indices(g.nodeCount),
            LAMBDA i : AtMost(Num((g.nodeX[i] - x) * (g.nodeX[i] - x)
                                  + (g.nodeY[i] - y) * (g.nodeY[i] - y)),
                              Times(radius, radius)))

findNodesInBox(g, minX, minY, maxX, maxY) ==
  SelectSeq(Indices(g.nodeCount),
            LAMBDA i : /\ g.nodeX[i] >= minX /\ g.nodeX[i] <= maxX
                       /\ g.nodeY[i] >= minY /\ g.nodeY[i] <= maxY)

\* The squared distance from (px, py) to the segment: with dot the
\* numerator of t and lengthSq its denominator, t is clamped to 0 when dot
\* <= 0 and to 1 when dot >= lengthSq.
pointToSegmentDistSq(px, py, x1, y1, x2, y2) ==
  LET dx == x2 - x1
      dy == y2 - y1
      lengthSq == dx * dx + dy * dy
      dot == (px - x1) * dx + (py - y1) * dy
      To(cx, cy) == Num((px - cx) * (px - cx) + (py - cy) * (py - cy))
  IN IF lengthSq = 0 THEN To(x1, y1)
     ELSE IF dot <= 0 THEN To(x1, y1)
     ELSE IF dot >= lengthSq THEN To(x2, y2)
     ELSE <<((px - x1) * lengthSq - dot * dx) * ((px - x1) * lengthSq - dot * dx)
            + ((py - y1) * lengthSq - dot * dy) * ((py - y1) * lengthSq - dot * dy),
            lengthSq * lengthSq>>

\* The loop of findNearestEdge from edge i on.
RECURSIVE nearestEdgeFrom(_, _, _, _, _, _)
nearestEdgeFrom(g, x, y, i, nearestIdx, nearestDistSq) ==
  IF i >= g.edgeCount THEN nearestIdx
  ELSE LET srcIdx == g.edgeSource[i]
           tgtIdx == g.edgeTarget[i]
           distSq == pointToSegmentDistSq(x, y, g.nodeX[srcIdx], g.nodeY[srcIdx],
                                          g.nodeX[tgtIdx], g.nodeY[tgtIdx])
       IN IF Below(distSq, nearestDistSq)
          THEN nearestEdgeFrom(g, x, y, i + 1, i, distSq)
          ELSE nearestEdgeFrom(g, x, y, i + 1, nearestIdx, nearestDistSq)

findNearestEdge(g, x, y, maxDist) ==
  nearestEdgeFrom(g, x, y, 0, -1, Times(maxDist, maxDist))

\* ----------------------------------------------------------- bulk loading
\* The total of a list of numbers (a loop adding them up).
RECURSIVE Sum(_)
Sum(s) == IF s = <<>> THEN 0 ELSE Head(s) + Sum(Tail(s))

\* Math.max(a, b).
Max(a, b) == IF a >= b THEN a ELSE b

\* loadFromArrow changed to leave nodeCount at the former count when that is
\* larger (no reset of the counts).
loadFromArrowKeepsCount(g, nodes, edges) ==
  LET numNodes == Len(nodes)
      numEdges == Len(edges)
      WriteEdges(g2) ==
        incrementVersion(
          [g2 EXCEPT
             !.edgeSource = [i \in DOMAIN g2.edgeSource |->
                               IF i < numEdges THEN edges[i + 1][1] ELSE g2.edgeSource[i]],
             !.edgeTarget = [i \in DOMAIN g2.edgeTarget |->
                               IF i < numEdges THEN edges[i + 1][2] ELSE g2.edgeTarget[i]],
             !.edgeCount = numEdges])
      GrowEdges(g1) ==
        WriteEdges(IF numEdges > g1.edgeCapacity
                   THEN resizeEdges(g1, Max(numEdges, g1.edgeCapacity * 2)) ELSE g1)
      WriteNodes(g1) ==
        [g1 EXCEPT
           !.nodeX = [i \in DOMAIN g1.nodeX |->
                        IF i < numNodes THEN nodes[i + 1][1] ELSE g1.nodeX[i]],
           !.nodeY = [i \in DOMAIN g1.nodeY |->
                        IF i < numNodes THEN nodes[i + 1][2] ELSE g1.nodeY[i]],
           !.nodeVX = [i \in DOMAIN g1.nodeVX |->
                         IF i < numNodes THEN 0 ELSE g1.nodeVX[i]],
           !.nodeVY = [i \in DOMAIN g1.nodeVY |->
                         IF i < numNodes THEN 0 ELSE g1.nodeVY[i]],
           !.nodeCount = Max(g.nodeCount, numNodes)]
  IN GrowEdges(WriteNodes(IF numNodes > g.nodeCapacity
                          THEN resizeNodes(g, Max(numNodes, g.nodeCapacity * 2))
                          ELSE g))

\* loadFromArrow(nodes, edges): nodes is the list of the rows' <<x_offset,
\* y_offset>>, edges the list of the rows' <<source_idx, target_idx>>. Rows
\* are written from index 0; slots past the rows keep what they held.
loadFromArrow(g, nodes, edges) ==
  LET numNodes == Len(nodes)
      numEdges == Len(edges)
      WriteEdges(g2) ==
        incrementVersion(
          [g2 EXCEPT
             !.edgeSource = [i \in DOMAIN g2.edgeSource |->
                               IF i < numEdges THEN edges[i + 1][1] ELSE g2.edgeSource[i]],
             !.edgeTarget = [i \in DOMAIN g2.edgeTarget |->
                               IF i < numEdges THEN edges[i + 1][2] ELSE g2.edgeTarget[i]],
             !.edgeCount = numEdges])
      GrowEdges(g1) ==
        WriteEdges(IF numEdges > g1.edgeCapacity
                   THEN resizeEdges(g1, Max(numEdges, g1.edgeCapacity * 2)) ELSE g1)
      WriteNodes(g1) ==
        [g1 EXCEPT
           !.nodeX = [i \in DOMAIN g1.nodeX |->
                        IF i < numNodes THEN nodes[i + 1][1] ELSE g1.nodeX[i]],
           !.nodeY = [i \in DOMAIN g1.nodeY |->
                        IF i < numNodes THEN nodes[i + 1][2] ELSE g1.nodeY[i]],
           !.nodeVX = [i \in DOMAIN g1.nodeVX |->
                         IF i < numNodes THEN 0 ELSE g1.nodeVX[i]],
           !.nodeVY = [i \in DOMAIN g1.nodeVY |->
                         IF i < numNodes THEN 0 ELSE g1.nodeVY[i]],
           !.nodeCount = numNodes]
  IN GrowEdges(WriteNodes(IF numNodes > g.nodeCapacity
                          THEN resizeNodes(g, Max(numNodes, g.nodeCapacity * 2))
                          ELSE g))

\* --------------------------------------------------- connected components
\* The loop of buildAdjacencyList from edge i on.
RECURSIVE adjacencyFrom(_, _, _)
adjacencyFrom(g, adjacency, i) ==
  IF i >= g.edgeCount THEN adjacency
  ELSE LET src == g.edgeSource[i]
           tgt == g.edgeTarget[i]
           PushSource(a) == [a EXCEPT ![tgt] = Append(@, src)]
       IN adjacencyFrom(g, PushSource([adjacency EXCEPT ![src] = Append(@, tgt)]), i + 1)

\* buildAdjacencyList changed to list an edge at its source only.
buildAdjacencyListDirected(g) ==
  [n \in 0 .. g.nodeCount - 1 |->
     LET from == SelectSeq([k \in 1 .. g.edgeCount |-> k - 1],
                           LAMBDA i : g.edgeSource[i] = n)
     IN [k \in 1 .. Len(from) |-> g.edgeTarget[from[k]]]]

buildAdjacencyList(g) ==
  adjacencyFrom(g, [n \in 0 .. g.nodeCount - 1 |-> <<>>], 0)

\* The while loop of computeConnectedComponents: the breadth-first search
\* that labels the component of the nodes in the queue.
RECURSIVE searchFrom(_, _, _, _, _)
searchFrom(adjacency, componentIds, queue, size, currentComponent) ==
  IF queue = <<>> THEN [componentIds |-> componentIds, size |-> size]
  ELSE LET node == Head(queue)
       IN IF componentIds[node] # -1
          THEN searchFrom(adjacency, componentIds, Tail(queue), size, currentComponent)
          ELSE LET labelled == [componentIds EXCEPT ![node] = currentComponent]
                   unvisited == SelectSeq(adjacency[node],
                                          LAMBDA neighbor : labelled[neighbor] = -1)
               IN searchFrom(adjacency, labelled, Tail(queue) \o unvisited,
                             size + 1, currentComponent)

\* The for loop of computeConnectedComponents from startNode on.
RECURSIVE componentsFrom(_, _, _, _, _, _)
componentsFrom(g, adjacency, componentIds, componentSizes, currentComponent, startNode) ==
  IF startNode >= g.nodeCount
  THEN [componentIds |-> componentIds, componentSizes |-> componentSizes,
        numComponents |-> currentComponent]
  ELSE IF componentIds[startNode] # -1
  THEN componentsFrom(g, adjacency, componentIds, componentSizes, currentComponent,
                      startNode + 1)
  ELSE LET Searched(r) ==
             componentsFrom(g, adjacency, r.componentIds, Append(componentSizes, r.size),
                            currentComponent + 1, startNode + 1)
       IN Searched(searchFrom(adjacency, componentIds, <<startNode>>, 0, currentComponent))

computeConnectedComponents(g) ==
  componentsFrom(g, buildAdjacencyList(g), [n \in 0 .. g.nodeCount - 1 |-> -1], <<>>, 0, 0)

\* The loop of findGiantComponent from position i of componentSizes on
\* (positions count from 1, component ids from 0).
RECURSIVE giantFrom(_, _, _, _)
giantFrom(componentSizes, i, giantId, giantSize) ==
  IF i > Len(componentSizes) THEN [giantComponentId |-> giantId, giantComponentSize |-> giantSize]
  ELSE IF componentSizes[i] > giantSize
       THEN giantFrom(componentSizes, i + 1, i - 1, componentSizes[i])
       ELSE giantFrom(componentSizes, i + 1, giantId, giantSize)

\* findGiantComponent changed to let a later component of equal size win.
findGiantComponentLastWins(g) ==
  LET Pick(c, top) ==
        [componentIds |-> c.componentIds,
         giantComponentId |->
           IF c.componentSizes = <<>> THEN 0
           ELSE (CHOOSE i \in DOMAIN c.componentSizes :
                   /\ c.componentSizes[i] = top
                   /\ \A k \in DOMAIN c.componentSizes :
                        c.componentSizes[k] = top => k <= i) - 1,
         giantComponentSize |-> top,
         componentSizes |-> c.componentSizes, numComponents |-> c.numComponents]
      Top(c) ==
        Pick(c, IF c.componentSizes = <<>> THEN 0
                ELSE CHOOSE s \in {c.componentSizes[i] : i \in DOMAIN c.componentSizes} :
                       \A i \in DOMAIN c.componentSizes : c.componentSizes[i] <= s)
  IN Top(computeConnectedComponents(g))

findGiantComponent(g) ==
  LET Giant(r, c) ==
        [componentIds |-> c.componentIds, giantComponentId |-> r.giantComponentId,
         giantComponentSize |-> r.giantComponentSize,
         componentSizes |-> c.componentSizes, numComponents |-> c.numComponents]
      Sizes(c) == Giant(giantFrom(c.componentSizes, 1, 0, 0), c)
  IN Sizes(computeConnectedComponents(g))

getGiantComponentNodes(g) ==
  LET Nodes(r) == SelectSeq(Indices(g.nodeCount),
                            LAMBDA i : r.componentIds[i] = r.giantComponentId)
  IN Nodes(findGiantComponent(g))

\* --------------------------------------------------- adjacency operations
\* list.includes(v).
Includes(list, v) == \E k \in 1 .. Len(list) : list[k] = v

\* The nested loops of autoConnectNearby from the pair (i, j) on. The
\* adjacency lists are built once and extended as edges are added.
RECURSIVE autoConnectFrom(_, _, _, _, _, _)
autoConnectFrom(g, adjacency, maxDistSq, i, j, edgesAdded) ==
  IF i >= g.nodeCount THEN [g |-> g, ret |-> edgesAdded]
  ELSE IF j >= g.nodeCount
  THEN autoConnectFrom(g, adjacency, maxDistSq, i + 1, i + 2, edgesAdded)
  ELSE IF Includes(adjacency[i], j)
  THEN autoConnectFrom(g, adjacency, maxDistSq, i, j + 1, edgesAdded)
  ELSE LET dx == g.nodeX[i] - g.nodeX[j]
           dy == g.nodeY[i] - g.nodeY[j]
           PushI(a) == [a EXCEPT ![j] = Append(@, i)]
       IN IF dx * dx + dy * dy <= maxDistSq
          THEN autoConnectFrom(addEdge(g, i, j).g,
                               PushI([adjacency EXCEPT ![i] = Append(@, j)]),
                               maxDistSq, i, j + 1, edgesAdded + 1)
          ELSE autoConnectFrom(g, adjacency, maxDistSq, i, j + 1, edgesAdded)

\* autoConnectNearby changed to compare the squared distance with maxDistance
\* itself.
autoConnectNearbyUnsquared(g, maxDistance) ==
  autoConnectFrom(g, buildAdjacencyList(g), maxDistance, 0, 1, 0)

autoConnectNearby(g, maxDistance) ==
  autoConnectFrom(g, buildAdjacencyList(g), maxDistance * maxDistance, 0, 1, 0)

\* The degrees array of removeIsolatedNodes: for each node the number of edge
\* ends that name it.
Degrees(g) ==
  [n \in 0 .. g.nodeCount - 1 |->
     Cardinality({i \in 0 .. g.edgeCount - 1 : g.edgeSource[i] = n})
     + Cardinality({i \in 0 .. g.edgeCount - 1 : g.edgeTarget[i] = n})]

\* computeStatistics changed to take as isolated the nodes of the components
\* of size 1.
computeStatisticsSingletons(g) ==
  LET Stats(r, degrees) ==
        [nodeCount |-> g.nodeCount,
         edgeCount |-> g.edgeCount,
         numComponents |-> r.numComponents,
         giantComponentSize |-> r.giantComponentSize,
         giantComponentPercent |->
           IF g.nodeCount > 0 THEN <<r.giantComponentSize * 100, g.nodeCount>> ELSE Num(0),
         avgDegree |->
           IF g.nodeCount > 0
           THEN <<Sum([k \in 1 .. g.nodeCount |-> degrees[k - 1]]), g.nodeCount>>
           ELSE Num(0),
         isolatedNodes |->
           Cardinality({k \in 1 .. r.numComponents : r.componentSizes[k] = 1})]
  IN Stats(findGiantComponent(g), Degrees(g))

\* computeStatistics counts the degrees as removeIsolatedNodes does. The two
\* quotients are kept as pairs <<numerator, denominator>>.
computeStatistics(g) ==
  LET Stats(r, degrees) ==
        [nodeCount |-> g.nodeCount,
         edgeCount |-> g.edgeCount,
         numComponents |-> r.numComponents,
         giantComponentSize |-> r.giantComponentSize,
         giantComponentPercent |->
           IF g.nodeCount > 0 THEN <<r.giantComponentSize * 100, g.nodeCount>> ELSE Num(0),
         avgDegree |->
           IF g.nodeCount > 0
           THEN <<Sum([k \in 1 .. g.nodeCount |-> degrees[k - 1]]), g.nodeCount>>
           ELSE Num(0),
         isolatedNodes |-> Cardinality({i \in 0 .. g.nodeCount - 1 : degrees[i] = 0})]
  IN Stats(findGiantComponent(g), Degrees(g))

\* The removal loop of removeIsolatedNodes from index i down to 0.
RECURSIVE removeIsolatedFrom(_, _, _, _)
removeIsolatedFrom(g, degrees, i, removed) ==
  IF i < 0 THEN [g |-> g, ret |-> removed]
  ELSE IF degrees[i] = 0
       THEN removeIsolatedFrom(removeNode(g, i).g, degrees, i - 1, removed + 1)
       ELSE removeIsolatedFrom(g, degrees, i - 1, removed)

\* removeIsolatedNodes changed to walk the indices upwards.
RECURSIVE removeIsolatedUpFrom(_, _, _, _, _)
removeIsolatedUpFrom(g, degrees, i, n, removed) ==
  IF i >= n THEN [g |-> g, ret |-> removed]
  ELSE IF degrees[i] = 0
       THEN removeIsolatedUpFrom(removeNode(g, i).g, degrees, i + 1, n, removed + 1)
       ELSE removeIsolatedUpFrom(g, degrees, i + 1, n, removed)

removeIsolatedNodesAscending(g) == removeIsolatedUpFrom(g, Degrees(g), 0, g.nodeCount, 0)

removeIsolatedNodes(g) == removeIsolatedFrom(g, Degrees(g), g.nodeCount - 1, 0)

\* nodesToRemove of keepOnlyGiantComponent: scanning from index i down to 0,
\* the nodes outside the giant component.
RECURSIVE nodesOutside(_, _, _)
nodesOutside(componentIds, giantComponentId, i) ==
  IF i < 0 THEN <<>>
  ELSE IF componentIds[i] # giantComponentId
       THEN <<i>> \o nodesOutside(componentIds, giantComponentId, i - 1)
       ELSE nodesOutside(componentIds, giantComponentId, i - 1)

\* The removal loop of keepOnlyGiantComponent from position k on.
RECURSIVE removeNodesFrom(_, _, _)
removeNodesFrom(g, nodesToRemove, k) ==
  IF k > Len(nodesToRemove) THEN g
  ELSE removeNodesFrom(removeNode(g, nodesToRemove[k]).g, nodesToRemove, k + 1)

\* keepOnlyGiantComponent changed to collect nodesToRemove in ascending order.
keepOnlyGiantComponentAscending(g) ==
  LET Remove(nodesToRemove) ==
        [g |-> removeNodesFrom(g, nodesToRemove, 1), ret |-> Len(nodesToRemove)]
      Outside(r) == Remove(SelectSeq(Indices(g.nodeCount),
                                     LAMBDA i : r.componentIds[i] # r.giantComponentId))
  IN Outside(findGiantComponent(g))

keepOnlyGiantComponent(g) ==
  LET Remove(nodesToRemove) ==
        [g |-> removeNodesFrom(g, nodesToRemove, 1), ret |-> Len(nodesToRemove)]
      Outside(r) == Remove(nodesOutside(r.componentIds, r.giantComponentId, g.nodeCount - 1))
  IN Outside(findGiantComponent(g))

\* ---------------------------------------------------------------- Commands
\* A Command object is a record of its private fields, with type naming its
\* class and id standing for the identity of the object. A method is an
\* operator from the command and the arena to [c |-> the command after the
\* call, g |-> the arena after the call].

AddNodeCommand(id, x, y) ==
  [type |-> "AddNode", id |-> id, x |-> x, y |-> y, nodeIdx |-> -1]

\* AddNodeCommand.execute changed to drop the index addNode returns.
AddNodeExecuteNoIndex(c, g) ==
  [c |-> c, g |-> addNode(g, c.x, c.y).g]

AddNodeExecute(c, g) ==
  LET Keep(r) == [c |-> [c EXCEPT !.nodeIdx = r.ret], g |-> r.g]
  IN Keep(addNode(g, c.x, c.y))

AddNodeUndo(c, g) ==
  IF c.nodeIdx >= 0
  THEN [c |-> [c EXCEPT !.nodeIdx = -1], g |-> removeNode(g, c.nodeIdx).g]
  ELSE [c |-> c, g |-> g]

RemoveNodeCommand(id, nodeIdx) ==
  [type |-> "RemoveNode", id |-> id, nodeIdx |-> nodeIdx,
   savedX |-> 0, savedY |-> 0, savedEdges |-> <<>>]

\* The scan of RemoveNodeCommand.execute from edge i on: the endpoint pairs
\* of the edges at nodeIdx, in ascending edge order.
RECURSIVE IncidentEdges(_, _, _)
IncidentEdges(g, nodeIdx, i) ==
  IF i >= g.edgeCount THEN <<>>
  ELSE IF g.edgeSource[i] = nodeIdx \/ g.edgeTarget[i] = nodeIdx
       THEN <<[source |-> g.edgeSource[i], target |-> g.edgeTarget[i]]>>
              \o IncidentEdges(g, nodeIdx, i + 1)
       ELSE IncidentEdges(g, nodeIdx, i + 1)

RemoveNodeExecute(c, g) ==
  [c |-> [c EXCEPT !.savedX = g.nodeX[c.nodeIdx],
                   !.savedY = g.nodeY[c.nodeIdx],
                   !.savedEdges = IncidentEdges(g, c.nodeIdx, 0)],
   g |-> removeNode(g, c.nodeIdx).g]

\* The loop of RemoveNodeCommand.undo over savedEdges from position k on.
RECURSIVE ReAddEdges(_, _, _, _, _)
ReAddEdges(g, savedEdges, nodeIdx, newIdx, k) ==
  IF k > Len(savedEdges) THEN g
  ELSE LET edge == savedEdges[k]
           src == IF edge.source = nodeIdx THEN newIdx ELSE edge.source
           tgt == IF edge.target = nodeIdx THEN newIdx ELSE edge.target
       IN ReAddEdges(addEdge(g, src, tgt).g, savedEdges, nodeIdx, newIdx, k + 1)

RemoveNodeUndo(c, g) ==
  LET Edges(r) == [c |-> c, g |-> ReAddEdges(r.g, c.savedEdges, c.nodeIdx, r.ret, 1)]
  IN Edges(addNode(g, c.savedX, c.savedY))

MoveNodeCommand(id, g, nodeIdx, newX, newY) ==
  [type |-> "MoveNode", id |-> id, nodeIdx |-> nodeIdx,
   oldX |-> g.nodeX[nodeIdx], oldY |-> g.nodeY[nodeIdx],
   newX |-> newX, newY |-> newY]

MoveNodeExecute(c, g) ==
  [c |-> c, g |-> updateNode(g, c.nodeIdx, c.newX, c.newY).g]

MoveNodeUndo(c, g) ==
  [c |-> c, g |-> updateNode(g, c.nodeIdx, c.oldX, c.oldY).g]

\* updateTarget changed to move the captured position along with the target.
updateTargetResetsOrigin(c, x, y) ==
  [c EXCEPT !.newX = x, !.newY = y, !.oldX = x, !.oldY = y]

updateTarget(c, x, y) == [c EXCEPT !.newX = x, !.newY = y]

AddEdgeCommand(id, source, target) ==
  [type |-> "AddEdge", id |-> id, source |-> source, target |-> target,
   edgeIdx |-> -1]

AddEdgeExecute(c, g) ==
  LET Keep(r) == [c |-> [c EXCEPT !.edgeIdx = r.ret], g |-> r.g]
  IN Keep(addEdge(g, c.source, c.target))

AddEdgeUndo(c, g) ==
  IF c.edgeIdx >= 0
  THEN [c |-> [c EXCEPT !.edgeIdx = -1], g |-> removeEdge(g, c.edgeIdx).g]
  ELSE [c |-> c, g |-> g]

RemoveEdgeCommand(id, edgeIdx) ==
  [type |-> "RemoveEdge", id |-> id, edgeIdx |-> edgeIdx,
   savedSource |-> 0, savedTarget |-> 0]

\* execute changed to read the endpoints after the removal.
RemoveEdgeExecuteSavesAfter(c, g) ==
  LET Saved(h) == [c |-> [c EXCEPT !.savedSource = h.edgeSource[c.edgeIdx],
                                   !.savedTarget = h.edgeTarget[c.edgeIdx]],
                   g |-> h]
  IN Saved(removeEdge(g, c.edgeIdx).g)

RemoveEdgeExecute(c, g) ==
  [c |-> [c EXCEPT !.savedSource = g.edgeSource[c.edgeIdx],
                   !.savedTarget = g.edgeTarget[c.edgeIdx]],
   g |-> removeEdge(g, c.edgeIdx).g]

RemoveEdgeUndo(c, g) ==
  [c |-> c, g |-> addEdge(g, c.savedSource, c.savedTarget).g]

\* [...indices].sort((a, b) => b - a): insertion of v into a descending list.
RECURSIVE InsertDesc(_, _)
InsertDesc(sorted, v) ==
  IF sorted = <<>> THEN <<v>>
  ELSE IF v > Head(sorted) THEN <<v>> \o sorted
  ELSE <<Head(sorted)>> \o InsertDesc(Tail(sorted), v)

RECURSIVE SortDescending(_)
SortDescending(indices) ==
  IF indices = <<>> THEN <<>>
  ELSE InsertDesc(SortDescending(Tail(indices)), Head(indices))

\* The sub-commands are objects of their own; they are never handed to the
\* CommandHistory, and carry identity 0.
\* BatchDeleteCommand changed to keep the order of the indices it is given.
BatchDeleteCommandUnsorted(id, nodeIndices, edgeIndices) ==
  [type |-> "BatchDelete", id |-> id,
   commands |->
     [k \in 1 .. Len(edgeIndices) |-> RemoveEdgeCommand(0, edgeIndices[k])]
     \o [k \in 1 .. Len(nodeIndices) |-> RemoveNodeCommand(0, nodeIndices[k])]]

BatchDeleteCommand(id, nodeIndices, edgeIndices) ==
  LET sortedEdges == SortDescending(edgeIndices)
      sortedNodes == SortDescending(nodeIndices)
  IN [type |-> "BatchDelete", id |-> id,
      commands |->
        [k \in 1 .. Len(sortedEdges) |-> RemoveEdgeCommand(0, sortedEdges[k])]
        \o [k \in 1 .. Len(sortedNodes) |-> RemoveNodeCommand(0, sortedNodes[k])]]

\* new BatchDeleteCommand(graph, nodeIndices, edgeIndices) as the caller sees
\* it: the object constructed, and the two arrays it handed over as they are
\* after the call.
\* The constructor changed to sort the arrays it is given, without the copy.
BatchDeleteConstructInPlace(id, nodeIndices, edgeIndices) ==
  [cmd |-> BatchDeleteCommand(id, nodeIndices, edgeIndices),
   nodeIndices |-> SortDescending(nodeIndices),
   edgeIndices |-> SortDescending(edgeIndices)]

BatchDeleteConstruct(id, nodeIndices, edgeIndices) ==
  [cmd |-> BatchDeleteCommand(id, nodeIndices, edgeIndices),
   nodeIndices |-> nodeIndices,
   edgeIndices |-> edgeIndices]

\* The loop of BatchDeleteCommand.execute from sub-command k on.
RECURSIVE BatchExecuteFrom(_, _, _)
BatchExecuteFrom(commands, g, k) ==
  IF k > Len(commands) THEN [commands |-> commands, g |-> g]
  ELSE LET Rest(r) == BatchExecuteFrom([commands EXCEPT ![k] = r.c], r.g, k + 1)
       IN Rest(IF commands[k].type = "RemoveEdge"
               THEN RemoveEdgeExecute(commands[k], g)
               ELSE RemoveNodeExecute(commands[k], g))

BatchDeleteExecute(c, g) ==
  LET Done(r) == [c |-> [c EXCEPT !.commands = r.commands], g |-> r.g]
  IN Done(BatchExecuteFrom(c.commands, g, 1))

\* The loop of BatchDeleteCommand.undo from sub-command k down to the first.
RECURSIVE BatchUndoFrom(_, _, _)
BatchUndoFrom(commands, g, k) ==
  IF k < 1 THEN [commands |-> commands, g |-> g]
  ELSE LET Rest(r) == BatchUndoFrom([commands EXCEPT ![k] = r.c], r.g, k - 1)
       IN Rest(IF commands[k].type = "RemoveEdge"
               THEN RemoveEdgeUndo(commands[k], g)
               ELSE RemoveNodeUndo(commands[k], g))

BatchDeleteUndo(c, g) ==
  LET Done(r) == [c |-> [c EXCEPT !.commands = r.commands], g |-> r.g]
  IN Done(BatchUndoFrom(c.commands, g, Len(c.commands)))

\* cmd.execute() and cmd.undo(): dispatch on the class of the object.
CommandExecute(c, g) ==
  CASE c.type = "AddNode" -> AddNodeExecute(c, g)
    [] c.type = "RemoveNode" -> RemoveNodeExecute(c, g)
    [] c.type = "MoveNode" -> MoveNodeExecute(c, g)
    [] c.type = "AddEdge" -> AddEdgeExecute(c, g)
    [] c.type = "RemoveEdge" -> RemoveEdgeExecute(c, g)
    [] c.type = "BatchDelete" -> BatchDeleteExecute(c, g)

CommandUndo(c, g) ==
  CASE c.type = "AddNode" -> AddNodeUndo(c, g)
    [] c.type = "RemoveNode" -> RemoveNodeUndo(c, g)
    [] c.type = "MoveNode" -> MoveNodeUndo(c, g)
    [] c.type = "AddEdge" -> AddEdgeUndo(c, g)
    [] c.type = "RemoveEdge" -> RemoveEdgeUndo(c, g)
    [] c.type = "BatchDelete" -> BatchDeleteUndo(c, g)

\* ---------------------------------------------------------- CommandHistory
\* A method is an operator from the history object h and the arena to
\* [h, g, ret, calls]: ret is <<>> for null (or void) and <<cmd>> for a
\* returned command; calls lists the Command methods invoked, in order.
CommandHistoryNew(maxHistory) ==
  [undoStack |-> <<>>, redoStack |-> <<>>, maxHistory |-> maxHistory]

\* Array.pop(): the list without its last element.
Pop(stack) == SubSeq(stack, 1, Len(stack) - 1)
Top(stack) == stack[Len(stack)]

\* execute changed to keep the redo stack.
historyExecuteKeepRedo(h, g, cmd) ==
  LET r == CommandExecute(cmd, g)
      pushed == Append(h.undoStack, r.c)
  IN [h |-> [h EXCEPT !.undoStack = IF Len(pushed) > h.maxHistory
                                    THEN Tail(pushed) ELSE pushed],
      g |-> r.g, ret |-> <<>>, calls |-> <<<<"execute", cmd.id>>>>]

\* execute changed to trim with pop() in place of shift(): the newest entry
\* is dropped.
historyExecuteDropNewest(h, g, cmd) ==
  LET r == CommandExecute(cmd, g)
      pushed == Append(h.undoStack, r.c)
  IN [h |-> [h EXCEPT !.undoStack = IF Len(pushed) > h.maxHistory
                                    THEN Pop(pushed) ELSE pushed,
                      !.redoStack = <<>>],
      g |-> r.g, ret |-> <<>>, calls |-> <<<<"execute", cmd.id>>>>]

historyExecute(h, g, cmd) ==
  LET r == CommandExecute(cmd, g)
      pushed == Append(h.undoStack, r.c)
  IN [h |-> [h EXCEPT !.undoStack = IF Len(pushed) > h.maxHistory
                                    THEN Tail(pushed) ELSE pushed,
                      !.redoStack = <<>>],
      g |-> r.g, ret |-> <<>>, calls |-> <<<<"execute", cmd.id>>>>]

\* undo changed to reset the redo stack when there is nothing to undo.
historyUndoClearsRedo(h, g) ==
  IF h.undoStack = <<>>
  THEN [h |-> [h EXCEPT !.redoStack = <<>>], g |-> g, ret |-> <<>>, calls |-> <<>>]
  ELSE LET cmd == Top(h.undoStack)
           r == CommandUndo(cmd, g)
       IN [h |-> [h EXCEPT !.undoStack = Pop(h.undoStack),
                           !.redoStack = Append(h.redoStack, r.c)],
           g |-> r.g, ret |-> <<r.c>>, calls |-> <<<<"undo", cmd.id>>>>]

\* undo changed to take the oldest entry, shift() in place of pop().
historyUndoOldest(h, g) ==
  IF h.undoStack = <<>> THEN [h |-> h, g |-> g, ret |-> <<>>, calls |-> <<>>]
  ELSE LET cmd == Head(h.undoStack)
           r == CommandUndo(cmd, g)
       IN [h |-> [h EXCEPT !.undoStack = Tail(h.undoStack),
                           !.redoStack = Append(h.redoStack, r.c)],
           g |-> r.g, ret |-> <<r.c>>, calls |-> <<<<"undo", cmd.id>>>>]

historyUndo(h, g) ==
  IF h.undoStack = <<>> THEN [h |-> h, g |-> g, ret |-> <<>>, calls |-> <<>>]
  ELSE LET cmd == Top(h.undoStack)
           r == CommandUndo(cmd, g)
       IN [h |-> [h EXCEPT !.undoStack = Pop(h.undoStack),
                           !.redoStack = Append(h.redoStack, r.c)],
           g |-> r.g, ret |-> <<r.c>>, calls |-> <<<<"undo", cmd.id>>>>]

\* redo changed to leave the command on the redo stack.
historyRedoKeepsEntry(h, g) ==
  IF h.redoStack = <<>> THEN [h |-> h, g |-> g, ret |-> <<>>, calls |-> <<>>]
  ELSE LET cmd == Top(h.redoStack)
           r == CommandExecute(cmd, g)
       IN [h |-> [h EXCEPT !.undoStack = Append(h.undoStack, r.c)],
           g |-> r.g, ret |-> <<r.c>>, calls |-> <<<<"execute", cmd.id>>>>]

historyRedo(h, g) ==
  IF h.redoStack = <<>> THEN [h |-> h, g |-> g, ret |-> <<>>, calls |-> <<>>]
  ELSE LET cmd == Top(h.redoStack)
           r == CommandExecute(cmd, g)
       IN [h |-> [h EXCEPT !.redoStack = Pop(h.redoStack),
                           !.undoStack = Append(h.undoStack, r.c)],
           g |-> r.g, ret |-> <<r.c>>, calls |-> <<<<"execute", cmd.id>>>>]

canUndo(h) == Len(h.undoStack) > 0
canRedo(h) == Len(h.redoStack) > 0

historyClear(h) == [h EXCEPT !.undoStack = <<>>, !.redoStack = <<>>]

\* The phase of a session in which no CommandHistory call was made yet.
NoCalls == [shape |-> "exec", executed |-> 0, cmd |-> "none", since |-> 0]
\* The since count after one more call.
Later(ph) == IF ph.since = 0 THEN 1 ELSE 2

\* ------------------------------------------------ calls on the arena (Spec)
\* last records the call just made: its name, its arguments and its result.
Call(op, args, res) ==
  /\ graph' = res.g
  /\ last' = [op |-> op, args |-> args, ret |-> res.ret]
  /\ UNCHANGED <<history, calls, nextId, phase, graph0>>

CallAddNode ==
  /\ graph.version < MaxVersion
  /\ graph.nodeCount < MaxNodes
  /\ \E p \in Points : Call("addNode", p, addNode(graph, p[1], p[2]))

CallRemoveNode ==
  /\ graph.version < MaxVersion
  /\ \E i \in NodeArgs(graph) : Call("removeNode", <<i>>, removeNode(graph, i))

CallUpdateNode ==
  /\ graph.version < MaxVersion
  /\ \E i \in NodeArgs(graph), p \in Points :
       Call("updateNode", <<i, p[1], p[2]>>, updateNode(graph, i, p[1], p[2]))

CallAddEdge ==
  /\ graph.version < MaxVersion
  /\ graph.edgeCount < MaxEdges
  /\ \E s \in NodeArgs(graph), t \in NodeArgs(graph) :
       Call("addEdge", <<s, t>>, addEdge(graph, s, t))

CallRemoveEdge ==
  /\ graph.version < MaxVersion
  /\ \E e \in EdgeArgs(graph) : Call("removeEdge", <<e>>, removeEdge(graph, e))

Init ==
  /\ \E c \in InitialCapacities : graph = GraphStateNew(c, c)
  /\ last = [op |-> "new", args |-> <<>>, ret |-> 0]
  /\ history = CommandHistoryNew(0)
  /\ calls = <<>>
  /\ nextId = 1
  /\ phase = NoCalls
  /\ graph0 = graph

Next ==
  \/ CallAddNode
  \/ CallRemoveNode
  \/ CallUpdateNode
  \/ CallAddEdge
  \/ CallRemoveEdge

vars == <<graph, history, last, calls, nextId, phase, graph0>>

Spec == Init /\ [][Next]_vars

\* -------------------------------------- every operation of the arena (SpecOps)
\* The tables handed to loadFromArrow. Row j of the node table is the point
\* p moved by j in both coordinates; the edge rows name loaded nodes only (the
\* loader's guarantee), self-loops and repeated pairs included, and come in
\* the order of the query result, here ascending.
NodeTables == {[j \in 1 .. n |-> <<p[1] + j - 1, p[2] + j - 1>>] :
                 n \in 0 .. MaxLoadNodes, p \in Points}
RowBefore(a, b) == a[1] < b[1] \/ (a[1] = b[1] /\ a[2] <= b[2])
SortedEdgeTables(numNodes, maxRows) ==
  UNION {{t \in [1 .. k -> (0 .. numNodes - 1) \X (0 .. numNodes - 1)] :
            \A i \in 1 .. k - 1 : RowBefore(t[i], t[i + 1])} : k \in 0 .. maxRows}
EdgeTables(numNodes) == SortedEdgeTables(numNodes, MaxLoadEdges)

\* The application loads once, into the arena it has just constructed.
CallLoadFromArrow ==
  /\ graph.version = 0
  /\ \E nodes \in NodeTables : \E edges \in EdgeTables(Len(nodes)) :
       Call("loadFromArrow", <<Len(nodes), Len(edges)>>,
            [g |-> loadFromArrow(graph, nodes, edges), ret |-> 0])

CallAutoConnectNearby ==
  \E d \in MaxDistances : Call("autoConnectNearby", <<d>>, autoConnectNearby(graph, d))

CallRemoveIsolatedNodes ==
  Call("removeIsolatedNodes", <<>>, removeIsolatedNodes(graph))

CallKeepOnlyGiantComponent ==
  Call("keepOnlyGiantComponent", <<>>, keepOnlyGiantComponent(graph))

InitOps ==
  /\ \E c \in OpsCapacities : graph = GraphStateNew(c[1], c[2])
  /\ last = [op |-> "new", args |-> <<>>, ret |-> 0]
  /\ history = CommandHistoryNew(0)
  /\ calls = <<>>
  /\ nextId = 1
  /\ phase = NoCalls
  /\ graph0 = graph

NextOps ==
  /\ graph.version < MaxOpsVersion
  /\ \/ Next
     \/ CallLoadFromArrow
     \/ CallAutoConnectNearby
     \/ CallRemoveIsolatedNodes
     \/ CallKeepOnlyGiantComponent

SpecOps == InitOps /\ [][NextOps]_vars

\* ------------------------------------------------- load and reload (SpecLoad)
\* loadFromArrow on the new arena and once more on the loaded one, with the
\* tables of SpecOps; last keeps the two tables handed over.
Reload ==
  /\ \/ last.op = "new"
     \/ last.op = "loadFromArrow" /\ graph.version = graph0.version + 1
  /\ \E nodes \in NodeTables : \E edges \in EdgeTables(Len(nodes)) :
       Call("loadFromArrow", <<nodes, edges>>,
            [g |-> loadFromArrow(graph, nodes, edges), ret |-> 0])

NextLoad == Reload

SpecLoad == InitOps /\ [][NextLoad]_vars

\* ------------------------------------------ analysis of a loaded graph (SpecQuery)
\* The application's arena after its load: n nodes, node j at <<j, j + 1>>,
\* and any table of edge rows between them (self-loops and repeated pairs
\* included); then a component query on it, or the clean-up operations
\* removeIsolatedNodes and keepOnlyGiantComponent, as often as asked for.
QueryLoadFromArrow ==
  /\ graph.version = 0
  /\ \E n \in 0 .. MaxQueryNodes :
       \E edges \in SortedEdgeTables(n, MaxQueryEdges) :
          Call("loadFromArrow", <<n, Len(edges)>>,
               [g |-> loadFromArrow(graph, [j \in 1 .. n |-> <<j - 1, j>>], edges),
                ret |-> 0])

QueryComputeConnectedComponents ==
  /\ last.op = "loadFromArrow"
  /\ Call("computeConnectedComponents", <<>>,
          [g |-> graph, ret |-> computeConnectedComponents(graph)])

InitQuery ==
  /\ graph = GraphStateNew(1, 1)
  /\ last = [op |-> "new", args |-> <<>>, ret |-> 0]
  /\ history = CommandHistoryNew(0)
  /\ calls = <<>>
  /\ nextId = 1
  /\ phase = NoCalls
  /\ graph0 = graph

QueryFindGiantComponent ==
  /\ last.op = "loadFromArrow"
  /\ Call("findGiantComponent", <<>>, [g |-> graph, ret |-> findGiantComponent(graph)])

QueryComputeStatistics ==
  /\ last.op = "loadFromArrow"
  /\ Call("computeStatistics", <<>>, [g |-> graph, ret |-> computeStatistics(graph)])

NextQuery ==
  \/ QueryLoadFromArrow
  \/ QueryComputeConnectedComponents
  \/ QueryFindGiantComponent
  \/ QueryComputeStatistics
  \/ CallRemoveIsolatedNodes
  \/ CallKeepOnlyGiantComponent

SpecQuery == InitQuery /\ [][NextQuery]_vars

\* --------------------------------------- the read-side operations (SpecRead)
\* The arena before and after the application's load: up to MaxReadNodes
\* nodes, each at one of ReadPoints (two nodes may share a position), and a
\* table of edge rows between them. Every read-side operation is called on
\* it, the spatial ones with a probe point of ProbePoints, a distance of
\* ProbeDistances or a box of ProbeBoxes.
ReadPoints == {<<0, 0>>, <<2, 0>>, <<0, 2>>}
ProbePoints == {<<1, 0>>, <<1, 1>>, <<3, 0>>}
ProbeDistances == {Num(0), Num(1), Num(2), Infinity}
ProbeBoxes == {<<0, 0, 2, 0>>, <<1, -1, 3, 1>>}

\* Read changed to count the call as a mutation.
ReadCounted(op, args, ret) ==
  /\ last.op \in {"new", "loadFromArrow", "removeNode"}
  /\ Call(op, args, [g |-> incrementVersion(graph), ret |-> ret])

\* A read-side call is made on the arena as constructed, as loaded, or as it
\* is after a node was removed from the loaded one.
Read(op, args, ret) ==
  /\ last.op \in {"new", "loadFromArrow", "removeNode"}
  /\ Call(op, args, [g |-> graph, ret |-> ret])

ReadLoadFromArrow ==
  /\ graph.version = 0
  /\ \E n \in 0 .. MaxReadNodes :
       \E nodes \in [1 .. n -> ReadPoints], edges \in SortedEdgeTables(n, MaxReadEdges) :
          Call("loadFromArrow", <<n, Len(edges)>>,
               [g |-> loadFromArrow(graph, nodes, edges), ret |-> 0])

\* One node is removed from the loaded arena: its slot is taken by the last
\* node, whose former slot keeps its values.
ReadRemoveNode ==
  /\ last.op = "loadFromArrow"
  /\ \E i \in 0 .. graph.nodeCount - 1 : Call("removeNode", <<i>>, removeNode(graph, i))

ReadHasEdge ==
  \E s \in NodeArgs(graph), t \in NodeArgs(graph) :
     Read("hasEdge", <<s, t>>, hasEdge(graph, s, t))

ReadFindEdge ==
  \E s \in NodeArgs(graph), t \in NodeArgs(graph) :
     Read("findEdge", <<s, t>>, findEdge(graph, s, t))

ReadGetNeighbors ==
  \E i \in NodeArgs(graph) : Read("getNeighbors", <<i>>, getNeighbors(graph, i))

ReadGetEdgesForNode ==
  \E i \in NodeArgs(graph) : Read("getEdgesForNode", <<i>>, getEdgesForNode(graph, i))

ReadFindNearestNode ==
  \E p \in ProbePoints, m \in ProbeDistances :
     Read("findNearestNode", <<p[1], p[2], m>>, findNearestNode(graph, p[1], p[2], m))

ReadFindNodesInRadius ==
  \E p \in ProbePoints, m \in ProbeDistances :
     Read("findNodesInRadius", <<p[1], p[2], m>>, findNodesInRadius(graph, p[1], p[2], m))

ReadFindNodesInBox ==
  \E b \in ProbeBoxes :
     Read("findNodesInBox", b, findNodesInBox(graph, b[1], b[2], b[3], b[4]))

ReadFindNearestEdge ==
  \E p \in ProbePoints, m \in ProbeDistances :
     Read("findNearestEdge", <<p[1], p[2], m>>, findNearestEdge(graph, p[1], p[2], m))

ReadBuildAdjacencyList ==
  Read("buildAdjacencyList", <<>>, buildAdjacencyList(graph))

ReadComputeConnectedComponents ==
  Read("computeConnectedComponents", <<>>, computeConnectedComponents(graph))

ReadFindGiantComponent ==
  Read("findGiantComponent", <<>>, findGiantComponent(graph))

ReadGetGiantComponentNodes ==
  Read("getGiantComponentNodes", <<>>, getGiantComponentNodes(graph))

ReadComputeStatistics ==
  Read("computeStatistics", <<>>, computeStatistics(graph))

InitRead ==
  /\ graph = GraphStateNew(1, 1)
  /\ last = [op |-> "new", args |-> <<>>, ret |-> 0]
  /\ history = CommandHistoryNew(0)
  /\ calls = <<>>
  /\ nextId = 1
  /\ phase = NoCalls
  /\ graph0 = graph

NextRead ==
  \/ ReadLoadFromArrow
  \/ ReadRemoveNode
  \/ ReadHasEdge
  \/ ReadFindEdge
  \/ ReadGetNeighbors
  \/ ReadGetEdgesForNode
  \/ ReadFindNearestNode
  \/ ReadFindNodesInRadius
  \/ ReadFindNodesInBox
  \/ ReadFindNearestEdge
  \/ ReadBuildAdjacencyList
  \/ ReadComputeConnectedComponents
  \/ ReadFindGiantComponent
  \/ ReadGetGiantComponentNodes
  \/ ReadComputeStatistics

SpecRead == InitRead /\ [][NextRead]_vars

\* --------------------------------------------- filling an arena (SpecFill)
\* A freshly constructed arena that is only added to, as in the tests: node
\* j is added at <<2j + 1, 2j + 2>>, and addEdge is called with equal or
\* neighbouring indices below MaxFillNodes, whether those nodes exist or not.
FillPoint(j) == <<2 * j + 1, 2 * j + 2>>
FillEdgeArgs ==
  {pr \in (0 .. MaxFillNodes - 1) \X (0 .. MaxFillNodes - 1) :
     pr[1] - pr[2] \in {-1, 0, 1}}

FillAddNode ==
  /\ graph.nodeCount < MaxFillNodes
  /\ Call("addNode", FillPoint(graph.nodeCount),
          addNode(graph, FillPoint(graph.nodeCount)[1], FillPoint(graph.nodeCount)[2]))

FillAddEdge ==
  /\ graph.edgeCount < MaxFillEdges
  /\ \E pr \in FillEdgeArgs : Call("addEdge", pr, addEdge(graph, pr[1], pr[2]))

InitFill ==
  /\ \E c \in FillCapacities : graph = GraphStateNew(c[1], c[2])
  /\ last = [op |-> "new", args |-> <<>>, ret |-> 0]
  /\ history = CommandHistoryNew(0)
  /\ calls = <<>>
  /\ nextId = 1
  /\ phase = NoCalls
  /\ graph0 = graph

NextFill ==
  \/ FillAddNode
  \/ FillAddEdge

SpecFill == InitFill /\ [][NextFill]_vars

\* ------------------------------------ editing sessions (SpecHistory, SpecEdit)
\* A session is a sequence of CommandHistory calls: execute on a freshly
\* constructed command, undo, redo and clear. phase records what was called:
\* shape is "exec" while the session is a run of execute calls, "undo" while
\* it is such a run followed by undo calls, "mixed" otherwise; executed is
\* the number of commands executed; cmd is the class of the command executed
\* last; since is the number of calls made after that execute (2 for more).

\* SpecHistory: the session of a new arena and a new CommandHistory.
InitHistory ==
  /\ graph = GraphStateNew(1, 1)
  /\ \E m \in 0 .. MaxHistoryArg : history = CommandHistoryNew(m)
  /\ last = [op |-> "new", args |-> <<>>, ret |-> <<>>]
  /\ calls = <<>>
  /\ nextId = 1
  /\ phase = NoCalls
  /\ graph0 = graph

\* SpecEdit: one command executed, undone and redone on any small arena. The
\* arena is built by addNode and addEdge calls: n nodes, node j at position
\* <<j, j + 1>>, then the edges of a list of endpoint pairs in any order, the
\* lower index of a pair as the source. With one command on the stacks every
\* maxHistory above 1 behaves as 1.
RECURSIVE AddNodes(_, _)
AddNodes(g, n) ==
  IF n = 0 THEN g ELSE addNode(AddNodes(g, n - 1), n - 1, n).g

RECURSIVE AddEdges(_, _)
AddEdges(g, pairs) ==
  IF pairs = <<>> THEN g
  ELSE AddEdges(addEdge(g, pairs[1][1], pairs[1][2]).g, Tail(pairs))

EdgeLists(n) ==
  LET ends == {pr \in (0 .. n - 1) \X (0 .. n - 1) : pr[1] < pr[2]}
  IN UNION {{l \in [1 .. k -> ends] : \A a, b \in 1 .. k : a # b => l[a] # l[b]} :
            k \in 0 .. MaxEdges}

InitEdit ==
  /\ \E n \in 0 .. MaxNodes :
       \E pairs \in EdgeLists(n) :
          graph = AddEdges(AddNodes(GraphStateNew(1, 1), n), pairs)
  /\ \E m \in {0, 1} : history = CommandHistoryNew(m)
  /\ last = [op |-> "new", args |-> <<>>, ret |-> <<>>]
  /\ calls = <<>>
  /\ nextId = MaxCmds
  /\ phase = NoCalls
  /\ graph0 = graph

\* The position a command constructed with identity id asks for: every
\* command names a position of its own.
PointFor(id) == <<10 * id, 10 * id + 1>>

\* history.execute(cmd) on a freshly constructed command.
Execute(cmd) ==
  LET r == historyExecute(history, graph, cmd)
  IN /\ graph' = r.g
     /\ history' = r.h
     /\ calls' = r.calls
     /\ last' = [op |-> "execute", args |-> <<cmd.id>>, ret |-> r.ret]
     /\ nextId' = nextId + 1
     /\ phase' = [shape |-> IF phase.shape = "exec" THEN "exec" ELSE "mixed",
                  executed |-> phase.executed + 1,
                  cmd |-> cmd.type, since |-> 0]
     /\ UNCHANGED graph0

CanConstruct ==
  /\ nextId <= MaxCmds
  /\ graph.version < MaxSessionVersion

ExecAddNode ==
  /\ CanConstruct
  /\ graph.nodeCount < MaxNodes
  /\ Execute(AddNodeCommand(nextId, PointFor(nextId)[1], PointFor(nextId)[2]))

ExecRemoveNode ==
  /\ CanConstruct
  /\ \E i \in 0 .. graph.nodeCount - 1 : Execute(RemoveNodeCommand(nextId, i))

ExecMoveNode ==
  /\ CanConstruct
  /\ \E i \in 0 .. graph.nodeCount - 1 :
       Execute(MoveNodeCommand(nextId, graph, i, PointFor(nextId)[1], PointFor(nextId)[2]))

ExecAddEdge ==
  /\ CanConstruct
  /\ graph.edgeCount < MaxEdges
  /\ \E s, t \in 0 .. graph.nodeCount - 1 : Execute(AddEdgeCommand(nextId, s, t))

ExecRemoveEdge ==
  /\ CanConstruct
  /\ \E e \in 0 .. graph.edgeCount - 1 : Execute(RemoveEdgeCommand(nextId, e))

\* The members of a set of indices as a list in ascending order (the
\* selection the caller hands to BatchDeleteCommand).
RECURSIVE Ascending(_)
Ascending(S) ==
  IF S = {} THEN <<>>
  ELSE LET m == CHOOSE v \in S : \A w \in S : v <= w
       IN <<m>> \o Ascending(S \ {m})

ExecBatchDelete ==
  /\ CanConstruct
  /\ \E N \in SUBSET (0 .. graph.nodeCount - 1), E \in SUBSET (0 .. graph.edgeCount - 1) :
       /\ N \cup E # {}
       /\ Execute(BatchDeleteCommand(nextId, Ascending(N), Ascending(E)))

Undo ==
  /\ graph.version < MaxSessionVersion
  /\ LET r == historyUndo(history, graph)
     IN /\ graph' = r.g
        /\ history' = r.h
        /\ calls' = r.calls
        /\ last' = [op |-> "undo", args |-> <<>>, ret |-> r.ret]
        /\ phase' = [phase EXCEPT !.shape = IF @ \in {"exec", "undo"}
                                           THEN "undo" ELSE "mixed",
                                  !.since = Later(phase)]
        /\ UNCHANGED <<nextId, graph0>>

Redo ==
  /\ graph.version < MaxSessionVersion
  /\ LET r == historyRedo(history, graph)
     IN /\ graph' = r.g
        /\ history' = r.h
        /\ calls' = r.calls
        /\ last' = [op |-> "redo", args |-> <<>>, ret |-> r.ret]
        /\ phase' = [phase EXCEPT !.shape = "mixed", !.since = Later(phase)]
        /\ UNCHANGED <<nextId, graph0>>

Clear ==
  /\ history' = historyClear(history)
  /\ calls' = <<>>
  /\ last' = [op |-> "clear", args |-> <<>>, ret |-> <<>>]
  /\ phase' = [phase EXCEPT !.shape = "mixed", !.since = Later(phase)]
  /\ UNCHANGED <<graph, nextId, graph0>>

NextHistory ==
  \/ ExecAddNode
  \/ ExecRemoveNode
  \/ ExecMoveNode
  \/ ExecAddEdge
  \/ ExecRemoveEdge
  \/ ExecBatchDelete
  \/ Undo
  \/ Redo
  \/ Clear

SpecHistory == InitHistory /\ [][NextHistory]_vars

SpecEdit == InitEdit /\ [][NextHistory]_vars

\* ------------------------------------------------- dragging a node (SpecMove)
\* The caller keeps the MoveNodeCommand it handed to history.execute: the
\* object on top of the undo stack. It retargets it and executes it again
\* while the drag goes on; history.undo() then calls its undo.
Dragging ==
  /\ history.undoStack # <<>>
  /\ Top(history.undoStack).type = "MoveNode"

\* cmd.updateTarget(x, y)
MoveUpdateTarget ==
  /\ Dragging
  /\ \E p \in Points :
       /\ history' = [history EXCEPT
                        !.undoStack[Len(history.undoStack)] = updateTarget(@, p[1], p[2])]
       /\ last' = [op |-> "updateTarget", args |-> p, ret |-> <<>>]
  /\ UNCHANGED <<graph, calls, nextId, phase, graph0>>

\* cmd.execute(), called on the object and not through the history
MoveExecute ==
  /\ Dragging
  /\ graph.version < MaxSessionVersion
  /\ LET Done(r) ==
           /\ graph' = r.g
           /\ history' = [history EXCEPT !.undoStack[Len(history.undoStack)] = r.c]
     IN Done(CommandExecute(Top(history.undoStack), graph))
  /\ last' = [op |-> "cmd.execute", args |-> <<Top(history.undoStack).id>>, ret |-> <<>>]
  /\ UNCHANGED <<calls, nextId, phase, graph0>>

NextMove ==
  \/ ExecMoveNode
  \/ MoveUpdateTarget
  \/ MoveExecute
  \/ Undo

SpecMove == InitEdit /\ [][NextMove]_vars

\* ------------------------------------------- deleting a selection (SpecBatch)
\* Array.from(set): the members of a selection in the order they were
\* selected, which is any order.
Orderings(S) ==
  {l \in [1 .. Cardinality(S) -> S] : \A a, b \in DOMAIN l : a # b => l[a] # l[b]}

\* The user selects nodes and edges of the arena.
Select ==
  /\ last.op = "new"
  /\ history.maxHistory >= 1
  /\ \E N \in SUBSET (0 .. graph.nodeCount - 1), E \in SUBSET (0 .. graph.edgeCount - 1) :
       /\ N \cup E # {}
       /\ \E nodes \in Orderings(N), edges \in Orderings(E) :
            last' = [op |-> "select", args |-> <<nodes, edges>>, ret |-> <<>>]
  /\ UNCHANGED <<graph, history, calls, nextId, phase, graph0>>

\* deleteSelection: the command is constructed from the selection and handed
\* to history.execute; last keeps the two arrays as they are afterwards.
DeleteSelection ==
  /\ last.op = "select"
  /\ CanConstruct
  /\ LET Done(made, r) ==
           /\ graph' = r.g
           /\ history' = r.h
           /\ calls' = r.calls
           /\ last' = [op |-> "execute",
                       args |-> <<made.cmd.id, made.nodeIndices, made.edgeIndices>>,
                       ret |-> r.ret]
           /\ phase' = [shape |-> IF phase.shape = "exec" THEN "exec" ELSE "mixed",
                        executed |-> phase.executed + 1,
                        cmd |-> made.cmd.type, since |-> 0]
         Run(made) == Done(made, historyExecute(history, graph, made.cmd))
     IN Run(BatchDeleteConstruct(nextId, last.args[1], last.args[2]))
  /\ nextId' = nextId + 1
  /\ UNCHANGED graph0

NextBatch ==
  \/ Select
  \/ DeleteSelection
  \/ Undo

SpecBatch == InitEdit /\ [][NextBatch]_vars

\* ------------------------------------- connecting a loaded graph (SpecConnect)
\* The arena after a load of n nodes in a row, node j at <<3 * j, 0>>, with
\* any sorted table of edge rows between them; then autoConnectNearby. With
\* maxDistance 3 the neighbours in the row are exactly at the distance.
ConnectLoadFromArrow ==
  /\ graph.version = 0
  /\ \E n \in 0 .. MaxQueryNodes :
       \E edges \in SortedEdgeTables(n, MaxQueryEdges) :
          Call("loadFromArrow", <<n, Len(edges)>>,
               [g |-> loadFromArrow(graph, [j \in 1 .. n |-> <<3 * (j - 1), 0>>], edges),
                ret |-> 0])

ConnectAutoConnectNearby ==
  /\ last.op = "loadFromArrow"
  /\ CallAutoConnectNearby

NextConnect ==
  \/ ConnectLoadFromArrow
  \/ ConnectAutoConnectNearby

SpecConnect == InitQuery /\ [][NextConnect]_vars

\* ------------------------------------- one call on a built arena (SpecFrame)
\* The arenas of SpecEdit. The velocity arrays are public and written by the
\* integrator outside the arena only: it gives a node that has none the
\* velocity <<1, -1>>. Then one updateNode or removeEdge call is made.
IntegratorWrites ==
  /\ last.op \in {"new", "integrate"}
  /\ \E i \in 0 .. graph.nodeCount - 1 :
       /\ graph.nodeVX[i] = 0
       /\ graph' = [graph EXCEPT !.nodeVX = Store(graph.nodeVX, i, 1),
                                 !.nodeVY = Store(graph.nodeVY, i, -1)]
       /\ last' = [op |-> "integrate", args |-> <<i>>, ret |-> <<>>]
  /\ UNCHANGED <<history, calls, nextId, phase, graph0>>

FrameUpdateNode ==
  /\ last.op \in {"new", "integrate"}
  /\ CallUpdateNode

FrameRemoveEdge ==
  /\ last.op \in {"new", "integrate"}
  /\ CallRemoveEdge

NextFrame ==
  \/ IntegratorWrites
  \/ FrameUpdateNode
  \/ FrameRemoveEdge

SpecFrame == InitEdit /\ [][NextFrame]_vars

\* ---------------------------------------- rejected commands (SpecReject)
\* A command whose execute the arena rejects is handed to history.execute on
\* an arena of SpecEdit: an AddEdgeCommand for which addEdge returns -1, or a
\* RemoveNodeCommand, RemoveEdgeCommand or MoveNodeCommand whose index is not
\* below the count. The index names a slot of the arrays (one behind the
\* count, below the capacity), so that what the command reads is a number.
ExecRejected ==
  /\ CanConstruct
  /\ \/ \E s \in NodeArgs(graph), t \in NodeArgs(graph) :
          /\ addEdge(graph, s, t).ret = -1
          /\ Execute(AddEdgeCommand(nextId, s, t))
     \/ \E i \in graph.nodeCount .. graph.nodeCapacity - 1 :
          Execute(RemoveNodeCommand(nextId, i))
     \/ \E e \in graph.edgeCount .. graph.edgeCapacity - 1 :
          Execute(RemoveEdgeCommand(nextId, e))
     \/ \E i \in graph.nodeCount .. graph.nodeCapacity - 1 :
          Execute(MoveNodeCommand(nextId, graph, i, PointFor(nextId)[1], PointFor(nextId)[2]))

NextReject ==
  \/ ExecRejected
  \/ Undo

SpecReject == InitEdit /\ [][NextReject]_vars

\* ------------------------------------------------------ views of an arena
\* The unordered endpoint pair of stored edge i.
EdgePair(g, i) == {g.edgeSource[i], g.edgeTarget[i]}
LiveEdges(g) == 0 .. g.edgeCount - 1
LiveNodes(g) == 0 .. g.nodeCount - 1
\* The attributes of node j.
NodeAttrs(g, j) == <<g.nodeX[j], g.nodeY[j], g.nodeVX[j], g.nodeVY[j]>>
\* What the error-handling contract speaks of: counts, capacities, the live
\* part of every array, and version.
SameArena(g, h) ==
  /\ g.nodeCount = h.nodeCount /\ g.edgeCount = h.edgeCount
  /\ g.nodeCapacity = h.nodeCapacity /\ g.edgeCapacity = h.edgeCapacity
  /\ g.version = h.version
  /\ \A j \in LiveNodes(g) : NodeAttrs(g, j) = NodeAttrs(h, j)
  /\ \A i \in LiveEdges(g) :
       g.edgeSource[i] = h.edgeSource[i] /\ g.edgeTarget[i] = h.edgeTarget[i]

EdgeInvariants(g) ==
  /\ \A i \in LiveEdges(g) :
       /\ g.edgeSource[i] # g.edgeTarget[i]
       /\ g.edgeSource[i] \in LiveNodes(g)
       /\ g.edgeTarget[i] \in LiveNodes(g)
  /\ \A i, j \in LiveEdges(g) : i # j => EdgePair(g, i) # EdgePair(g, j)

\* ----------------------------------------------------------------- claims

FormerIndex(g, i, j) == IF j = i THEN g.nodeCount - 1 ELSE j

\* C2: removeNode(i) with i in range returns true, lowers nodeCount by one,
\* removes exactly the edges that had i as an endpoint, leaves every node
\* but the former last one at its index with its attributes, puts the former
\* last node's attributes at i, and every surviving edge joins the same two
\* nodes as before.
C2_RemoveNode ==
  [][(last'.op = "removeNode" /\ last'.args[1] \in LiveNodes(graph)) =>
       LET i == last'.args[1]
           kept == {e \in LiveEdges(graph) : i \notin EdgePair(graph, e)}
       IN /\ last'.ret = TRUE
          /\ graph'.nodeCount = graph.nodeCount - 1
          /\ \A j \in LiveNodes(graph') :
               NodeAttrs(graph', j) = NodeAttrs(graph, FormerIndex(graph, i, j))
          /\ graph'.edgeCount = Cardinality(kept)
          /\ \A e \in LiveEdges(graph') :
               EdgePair(graph', e) \subseteq LiveNodes(graph')
          /\ {{FormerIndex(graph, i, n) : n \in EdgePair(graph', e)} :
                e \in LiveEdges(graph')}
             = {EdgePair(graph, e) : e \in kept}]_vars

\* C2 witness: a removeNode of a node that was not the last one succeeded
\* and left two or more nodes and an edge.
C2_Witness ==
  /\ last.op = "removeNode" /\ last.ret = TRUE
  /\ last.args[1] < graph.nodeCount
  /\ graph.nodeCount >= 2
  /\ graph.edgeCount >= 1

\* The unordered pair {s, t} is joined by a stored edge.
Connected(g, s, t) == \E i \in LiveEdges(g) : EdgePair(g, i) = {s, t}

NodePosition(g, j) == <<g.nodeX[j], g.nodeY[j]>>
EdgePairs(g) == {EdgePair(g, i) : i \in LiveEdges(g)}

\* g and h are the same graph up to a relabeling of the node indices: the
\* same counts, and a one-to-one map of the nodes that keeps the positions
\* and carries the joined pairs of g onto those of h.
SameUpToRelabeling(g, h) ==
  /\ g.nodeCount = h.nodeCount
  /\ g.edgeCount = h.edgeCount
  /\ \E f \in [LiveNodes(g) -> LiveNodes(h)] :
       /\ \A a, b \in LiveNodes(g) : a # b => f[a] # f[b]
       /\ \A j \in LiveNodes(g) : NodePosition(h, f[j]) = NodePosition(g, j)
       /\ {{f[n] : n \in pr} : pr \in EdgePairs(g)} = EdgePairs(h)

StackIds(stack) == [k \in 1 .. Len(stack) |-> stack[k].id]
Reverse(seq) == [k \in 1 .. Len(seq) |-> seq[Len(seq) + 1 - k]]

\* The call just made was the first one after an execute, and it was undo().
UndoRightAfterExecute == last.op = "undo" /\ phase.since = 1

\* C4: a run of at most maxHistory commands executed through one
\* CommandHistory from an arena that satisfies the edge invariants, followed
\* by undo() until canUndo() is false, leaves the graph the session started
\* from, up to relabeling of indices.
C4_UndoAllRestores ==
  (/\ phase.shape \in {"exec", "undo"}
   /\ phase.executed <= history.maxHistory
   /\ ~canUndo(history))
  => SameUpToRelabeling(graph0, graph)

\* The sub-commands of the BatchDeleteCommand that undo() just returned are
\* one RemoveNodeCommand, of a node that had an incident edge.
UndidBatchOfOneNode ==
  /\ UndoRightAfterExecute /\ phase.executed = 1
  /\ last.ret # <<>>
  /\ last.ret[1].type = "BatchDelete"
  /\ Len(last.ret[1].commands) = 1
  /\ last.ret[1].commands[1].type = "RemoveNode"
  /\ last.ret[1].commands[1].savedEdges # <<>>

\* C5: BatchDeleteCommand(graph, [n], []) on a node n with incident edges,
\* executed through CommandHistory and undone, restores nodeCount and
\* edgeCount, gives the re-added node the saved position and the neighbours n
\* had, and keeps every other adjacency.
C5_BatchDeleteUndoRestores ==
  UndidBatchOfOneNode =>
    LET n == last.ret[1].commands[1].nodeIdx
        lastIdx == graph0.nodeCount - 1
        \* where the node at index j before the command sits after the undo
        now == [j \in LiveNodes(graph0) |->
                  IF j = n THEN lastIdx ELSE IF j = lastIdx THEN n ELSE j]
    IN /\ graph.nodeCount = graph0.nodeCount
       /\ graph.edgeCount = graph0.edgeCount
       /\ \A j \in LiveNodes(graph0) :
            NodePosition(graph, now[j]) = NodePosition(graph0, j)
       /\ EdgePairs(graph) = {{now[j] : j \in pr} : pr \in EdgePairs(graph0)}

\* The arena is the arena before the command, as far as C6 speaks of it: the
\* same nodeCount, every node at its position, every edge in its slot.
NodesAndEdgesAsBefore ==
  /\ graph.nodeCount = graph0.nodeCount
  /\ \A j \in LiveNodes(graph0) : NodePosition(graph, j) = NodePosition(graph0, j)
  /\ graph.edgeCount = graph0.edgeCount
  /\ \A i \in LiveEdges(graph0) :
       /\ graph.edgeSource[i] = graph0.edgeSource[i]
       /\ graph.edgeTarget[i] = graph0.edgeTarget[i]

\* C6 as stated: from any arena, an AddNodeCommand executed through
\* CommandHistory and undone at once leaves nodeCount, the positions of the
\* nodes that existed and the edges as they were.
C6_AddNodeUndo_Original ==
  (UndoRightAfterExecute /\ phase.executed = 1 /\ phase.cmd = "AddNode")
  => NodesAndEdgesAsBefore

\* C6, amended: the same for a CommandHistory with maxHistory >= 1; with
\* maxHistory = 0 the command is dropped by execute, undo() returns null and
\* the added node stays.
C6_AddNodeUndo ==
  (UndoRightAfterExecute /\ phase.executed = 1 /\ phase.cmd = "AddNode")
  => IF history.maxHistory >= 1
     THEN NodesAndEdgesAsBefore /\ last.ret # <<>>
     ELSE graph.nodeCount = graph0.nodeCount + 1 /\ last.ret = <<>>

\* C6 witness: the AddNodeCommand was executed on an arena holding nodes and
\* an edge, and undo() returned it.
C6_Witness ==
  /\ UndoRightAfterExecute /\ phase.executed = 1 /\ phase.cmd = "AddNode"
  /\ last.ret # <<>> /\ last.ret[1].type = "AddNode"
  /\ graph0.nodeCount >= 2 /\ graph0.edgeCount >= 1

\* execute(cmd) called cmd.execute() once and nothing else, and left the
\* redo stack empty.
ExecutedOnceAndRedoCleared ==
  /\ calls = <<<<"execute", last.args[1]>>>>
  /\ ~canRedo(history)

\* C7 as stated: after any execute(cmd), cmd.execute() was called exactly
\* once, cmd is the top of the undo stack and canRedo() is false.
C7_Execute_Original ==
  last.op = "execute" =>
    /\ ExecutedOnceAndRedoCleared
    /\ canUndo(history)
    /\ Top(history.undoStack).id = last.args[1]

\* C7, amended: cmd is the top of the undo stack when maxHistory >= 1; with
\* maxHistory = 0 the trim removes it again and the undo stack is empty.
C7_Execute ==
  last.op = "execute" =>
    /\ ExecutedOnceAndRedoCleared
    /\ IF history.maxHistory >= 1
       THEN canUndo(history) /\ Top(history.undoStack).id = last.args[1]
       ELSE ~canUndo(history)

\* C7 witness: two commands were executed, calls other than execute came
\* between them, no trim was due, and the last execute left one command.
C7_Witness ==
  /\ last.op = "execute"
  /\ phase.shape = "mixed" /\ phase.executed = 2
  /\ history.maxHistory = 2
  /\ Len(history.undoStack) = 1

\* C8: the undo stack never holds more than maxHistory commands; an execute
\* on a full undo stack drops exactly the oldest entry and keeps the others
\* in order, and after an execute canUndo() is true when maxHistory >= 1.
C8_HistoryBound ==
  /\ [](Len(history.undoStack) <= history.maxHistory)
  /\ []((last.op = "execute" /\ history.maxHistory >= 1) => canUndo(history))
  /\ [][(last'.op = "execute" /\ Len(history.undoStack) = history.maxHistory)
          => StackIds(history'.undoStack)
             = Tail(StackIds(history.undoStack) \o <<last'.args[1]>>)]_vars

\* C8 witness: only execute was called, more often than maxHistory >= 1, and
\* the undo stack is full.
C8_Witness ==
  /\ last.op = "execute" /\ phase.shape = "exec"
  /\ history.maxHistory >= 1
  /\ phase.executed > history.maxHistory
  /\ Len(history.undoStack) = history.maxHistory

\* C9: undo() on an empty undo stack and redo() on an empty redo stack
\* return null, call no command method and leave both stacks and the arena,
\* version included, as they were.
C9_EmptyStacks ==
  [][/\ (last'.op = "undo" /\ ~canUndo(history))
          => (last'.ret = <<>> /\ calls' = <<>>
              /\ history' = history /\ graph' = graph)
     /\ (last'.op = "redo" /\ ~canRedo(history))
          => (last'.ret = <<>> /\ calls' = <<>>
              /\ history' = history /\ graph' = graph)]_vars

\* C9 witness: undo() returned null while the redo stack held a command.
C9_Witness ==
  /\ last.op = "undo" /\ last.ret = <<>>
  /\ canRedo(history) /\ graph.nodeCount >= 1

\* C10: undo() takes the top of the undo stack, calls its undo() once, pushes
\* it onto the redo stack and returns it; redo() takes the top of the redo
\* stack, calls its execute() once, pushes it onto the undo stack and returns
\* it. The commands held, read from the bottom of the undo stack to its top
\* and on from the top of the redo stack to its bottom, are in execution
\* order: successive undo() calls return them in reverse execution order and
\* the redo() calls that follow return them in execution order.
C10_UndoRedo ==
  /\ [](LET ids == StackIds(history.undoStack) \o Reverse(StackIds(history.redoStack))
        IN \A a, b \in 1 .. Len(ids) : a < b => ids[a] < ids[b])
  /\ [][/\ (last'.op = "undo" /\ canUndo(history))
             => /\ last'.ret # <<>>
                /\ last'.ret[1].id = Top(history.undoStack).id
                /\ calls' = <<<<"undo", Top(history.undoStack).id>>>>
                /\ history'.undoStack = Pop(history.undoStack)
                /\ history'.redoStack = Append(history.redoStack, last'.ret[1])
        /\ (last'.op = "redo" /\ canRedo(history))
             => /\ last'.ret # <<>>
                /\ last'.ret[1].id = Top(history.redoStack).id
                /\ calls' = <<<<"execute", Top(history.redoStack).id>>>>
                /\ history'.redoStack = Pop(history.redoStack)
                /\ history'.undoStack = Append(history.undoStack, last'.ret[1])]_vars

\* C10 witness: two commands were executed, both undone and both redone.
C10_Witness ==
  /\ last.op = "redo" /\ last.ret # <<>>
  /\ phase.executed = 2
  /\ StackIds(history.undoStack) = <<1, 2>>
  /\ ~canRedo(history)

\* ------------------------------------------ version, capacities (SpecOps)
\* The call just made (the step's last') was one of the six mutations and
\* succeeded.
Succeeded(l) ==
  \/ l.op \in {"addNode", "loadFromArrow"}
  \/ l.op \in {"removeNode", "updateNode", "removeEdge"} /\ l.ret = TRUE
  \/ l.op = "addEdge" /\ l.ret >= 0

\* C11: version never decreases, and every successful addNode, removeNode,
\* updateNode, addEdge, removeEdge and loadFromArrow leaves version greater
\* than it was before the call.
C11_VersionGrows ==
  [][/\ graph'.version >= graph.version
     /\ Succeeded(last') => graph'.version > graph.version]_vars

\* C11 witness: an edge that loadFromArrow loaded was removed by removeEdge,
\* the second successful mutation of the arena.
C11_Witness ==
  /\ last.op = "removeEdge" /\ last.ret = TRUE
  /\ graph.version = 2
  /\ graph.nodeCount = MaxLoadNodes

\* What a consumer of version reads of the arena: the counts, the position
\* of every live node and the endpoints of every live edge.
SameContent(g, h) ==
  /\ g.nodeCount = h.nodeCount /\ g.edgeCount = h.edgeCount
  /\ \A j \in LiveNodes(g) : g.nodeX[j] = h.nodeX[j] /\ g.nodeY[j] = h.nodeY[j]
  /\ \A i \in LiveEdges(g) :
       g.edgeSource[i] = h.edgeSource[i] /\ g.edgeTarget[i] = h.edgeTarget[i]

Length(arr) == Cardinality(DOMAIN arr)

\* C13: in every reachable state, whatever capacities the constructor was
\* given, nodeCount <= nodeCapacity and edgeCount <= edgeCapacity, and the
\* node arrays have length nodeCapacity and the edge arrays edgeCapacity.
C13_CountsWithinCapacity ==
  /\ graph.nodeCount <= graph.nodeCapacity
  /\ graph.edgeCount <= graph.edgeCapacity
  /\ \A arr \in {graph.nodeX, graph.nodeY, graph.nodeVX, graph.nodeVY} :
       Length(arr) = graph.nodeCapacity
  /\ Length(graph.edgeSource) = graph.edgeCapacity
  /\ Length(graph.edgeTarget) = graph.edgeCapacity

\* C15: nodeCapacity and edgeCapacity never decrease, whatever is called
\* (removals and loadFromArrow included), and when an addNode or an addEdge
\* call changes a capacity the new capacity is twice the old one.
C15_CapacityGrows ==
  [][/\ graph'.nodeCapacity >= graph.nodeCapacity
     /\ graph'.edgeCapacity >= graph.edgeCapacity
     /\ last'.op = "addNode"
          => /\ graph'.nodeCapacity \in {graph.nodeCapacity, 2 * graph.nodeCapacity}
             /\ graph'.edgeCapacity = graph.edgeCapacity
     /\ last'.op = "addEdge"
          => /\ graph'.edgeCapacity \in {graph.edgeCapacity, 2 * graph.edgeCapacity}
             /\ graph'.nodeCapacity = graph.nodeCapacity]_vars

\* C15 witness: an addNode on a loaded, full arena of capacity 2 or more has
\* just doubled the node capacity (nodeCount is one more than the old
\* capacity).
C15_Witness ==
  /\ last.op = "addNode"
  /\ graph.version = 2
  /\ graph.nodeCapacity >= 4
  /\ graph.nodeCount * 2 = graph.nodeCapacity + 2

\* ------------------------------------------------- undirected edges
\* C16: in every reachable state addEdge(i, i) fails for every i; right after
\* a successful addEdge(a, b) the call addEdge(b, a) fails and leaves the
\* arena (edgeCount included) as it is; and for all a, b hasEdge and findEdge
\* give the same answer for (a, b) and (b, a), findEdge being >= 0 exactly
\* when hasEdge is true.
C16_EdgesUndirected ==
  /\ \A i \in NodeArgs(graph) : addEdge(graph, i, i) = [g |-> graph, ret |-> -1]
  /\ last.op = "addEdge" /\ last.ret >= 0
       => addEdge(graph, last.args[2], last.args[1]) = [g |-> graph, ret |-> -1]
  /\ \A a \in NodeArgs(graph), b \in NodeArgs(graph) :
       /\ hasEdge(graph, a, b) = hasEdge(graph, b, a)
       /\ findEdge(graph, a, b) = findEdge(graph, b, a)
       /\ findEdge(graph, a, b) >= 0 <=> hasEdge(graph, a, b)

\* ------------------------------------------------- growth, addEdge (SpecFill)
\* C14: on an arena created with node capacity k, the addNode calls return
\* 0, 1, 2, ... in order, every inserted position is read back unchanged at
\* the index returned for it, and once k + 1 calls were made nodeCount is
\* k + 1 and the node capacity is 2k. (In SpecFill nodeCount is the number of
\* addNode calls made, and call j inserted FillPoint(j).)
C14_GrowthKeepsNodes ==
  /\ last.op = "addNode" => last.ret = graph.nodeCount - 1
  /\ \A j \in 0 .. graph.nodeCount - 1 :
       /\ ElementIs(graph.nodeX, j, FillPoint(j)[1])
       /\ ElementIs(graph.nodeY, j, FillPoint(j)[2])
  /\ graph.nodeCount = graph0.nodeCapacity + 1
       => graph.nodeCapacity = 2 * graph0.nodeCapacity

Position(g, j) == <<g.nodeX[j], g.nodeY[j]>>
EdgePositions(g, e) == {Position(g, g.edgeSource[e]), Position(g, g.edgeTarget[e])}
DistinctPositions(g) ==
  \A j \in LiveNodes(g), k \in LiveNodes(g) : j # k => Position(g, j) # Position(g, k)

\* h holds exactly the nodes of g outside N, with their attributes, and
\* exactly the edges of g that are outside E and touch no node of N, each
\* joining the same two nodes.
RemovedExactly(g, h, N, E) ==
  LET keptNodes == LiveNodes(g) \ N
      keptEdges == {e \in LiveEdges(g) \ E : EdgePair(g, e) \cap N = {}}
  IN /\ h.nodeCount = Cardinality(keptNodes)
     /\ {NodeAttrs(h, j) : j \in LiveNodes(h)} = {NodeAttrs(g, j) : j \in keptNodes}
     /\ h.edgeCount = Cardinality(keptEdges)
     /\ {EdgePositions(h, e) : e \in LiveEdges(h)} = {EdgePositions(g, e) : e \in keptEdges}
     /\ \A e \in LiveEdges(h) : EdgePair(h, e) \subseteq LiveNodes(h)

\* C19: on every arena a session starts with and on every arena a command
\* has just been executed on, for every set N of node indices and every set
\* E of edge indices in range, execute() of a new BatchDeleteCommand(graph,
\* N, E) leaves exactly the nodes outside N, with their positions, and
\* exactly the edges that are neither in E nor incident to a node of N, each
\* still joining the same two nodes.
C19_BatchDeleteExact ==
  /\ DistinctPositions(graph)
  /\ \A N \in SUBSET LiveNodes(graph), E \in SUBSET LiveEdges(graph) :
       last.op \in {"new", "execute"} =>
       RemovedExactly(graph,
                      BatchDeleteExecute(BatchDeleteCommand(nextId, Ascending(N), Ascending(E)),
                                         graph).g,
                      N, E)

\* C19 witness: a batch was executed on three nodes joined by two edges and
\* left two nodes and one edge, the last node having moved into slot 0.
C19_Witness ==
  /\ last.op = "execute"
  /\ phase.cmd = "BatchDelete"
  /\ graph0.nodeCount = 3
  /\ graph0.edgeCount = 2
  /\ graph.nodeCount = 2
  /\ graph.edgeCount = 1
  /\ Position(graph, 0) = Position(graph0, 2)
  /\ \E N \in SUBSET LiveNodes(graph0), E \in SUBSET LiveEdges(graph0) :
       RemovedExactly(graph0, graph, N, E)

\* ---------------------------------------------- connected components
\* The nodes joined to a node of S by a path of stored edges.
RECURSIVE Closure(_, _)
Closure(g, S) ==
  LET next == S \cup {n \in LiveNodes(g) :
                        \E e \in LiveEdges(g) : n \in EdgePair(g, e) /\ EdgePair(g, e) \cap S # {}}
  IN IF next = S THEN S ELSE Closure(g, next)
PathJoins(g, a, b) == b \in Closure(g, {a})
Labelled(r, c) == {n \in DOMAIN r.componentIds : r.componentIds[n] = c}
Lowest(S) == CHOOSE n \in S : \A m \in S : n <= m

\* The result r of computeConnectedComponents describes the components of g.
ComponentsOf(g, r) ==
  /\ DOMAIN r.componentIds = LiveNodes(g)
  /\ \A n \in LiveNodes(g) : r.componentIds[n] \in 0 .. r.numComponents - 1
  /\ \A a \in LiveNodes(g), b \in LiveNodes(g) :
       r.componentIds[a] = r.componentIds[b] <=> PathJoins(g, a, b)
  /\ Len(r.componentSizes) = r.numComponents
  /\ \A c \in 0 .. r.numComponents - 1 :
       /\ r.componentSizes[c + 1] = Cardinality(Labelled(r, c))
       /\ Labelled(r, c) # {}
  /\ Sum(r.componentSizes) = g.nodeCount
  /\ \A c \in 0 .. r.numComponents - 2 :
       Lowest(Labelled(r, c)) < Lowest(Labelled(r, c + 1))
  /\ g.nodeCount > 0 => r.componentIds[0] = 0

\* C20: computeConnectedComponents returns (its loops end) with every node
\* labelled by an id in [0, numComponents); two nodes have the same id
\* exactly when a path of stored edges joins them; componentSizes[c] is the
\* number of nodes labelled c, the sizes sum to nodeCount and there are
\* numComponents of them; the ids follow the ascending order of the lowest
\* node index of each component, node 0 being in component 0.
C20_ComponentsLabelled ==
  last.op = "computeConnectedComponents" => ComponentsOf(graph, last.ret)

\* C20 witness: four nodes in two interleaved components, {0, 2} found first
\* and {1, 3} second.
C20_Witness ==
  /\ last.op = "computeConnectedComponents"
  /\ graph.nodeCount = 4
  /\ last.ret.numComponents = 2
  /\ last.ret.componentSizes = <<2, 2>>
  /\ Labelled(last.ret, 0) = {0, 2}
  /\ Labelled(last.ret, 1) = {1, 3}

\* ------------------------------------------------------- giant component
\* C21: findGiantComponent returns the components of
\* computeConnectedComponents, giantComponentSize equal to the largest entry
\* of componentSizes, and giantComponentId equal to the smallest component id
\* of that size, which is the component holding the lowest node index among
\* the largest ones. (Without nodes there is no entry, and it returns id 0
\* and size 0.)
C21_GiantIsFirstLargest ==
  last.op = "findGiantComponent" =>
    LET r == last.ret
        ids == 0 .. r.numComponents - 1
    IN /\ ComponentsOf(graph, r)
       /\ r.numComponents = 0 => r.giantComponentId = 0 /\ r.giantComponentSize = 0
       /\ r.numComponents > 0 =>
            /\ r.giantComponentId \in ids
            /\ r.componentSizes[r.giantComponentId + 1] = r.giantComponentSize
            /\ \A c \in ids : r.componentSizes[c + 1] <= r.giantComponentSize
            /\ \A c \in ids : r.componentSizes[c + 1] = r.giantComponentSize
                                => r.giantComponentId <= c
            /\ \A c \in ids : Cardinality(Labelled(r, c)) = r.giantComponentSize
                                => Lowest(Labelled(r, r.giantComponentId)) <= Lowest(Labelled(r, c))

\* C21 witness: two components of the largest size, {0, 2} and {1, 3}; the
\* one found first is the giant.
C21_Witness ==
  /\ last.op = "findGiantComponent"
  /\ last.ret.componentSizes = <<2, 2>>
  /\ Labelled(last.ret, 0) = {0, 2}
  /\ last.ret.giantComponentId = 0
  /\ last.ret.giantComponentSize = 2

\* --------------------------------------------------------- nearest node
\* The squared distance from node i to (x, y).
NodeDistSq(g, i, x, y) ==
  Num((g.nodeX[i] - x) * (g.nodeX[i] - x) + (g.nodeY[i] - y) * (g.nodeY[i] - y))

\* C22: findNearestNode(x, y, maxDist), for maxDist >= 0 or Infinity, returns
\* -1 on an arena without nodes; a result r other than -1 is a node index,
\* node r is within maxDist of (x, y), no node is strictly closer than node
\* r, and r is the lowest index among the nodes at that distance. (-1 is
\* returned exactly when no node is closer than maxDist.)
C22_NearestNode ==
  last.op = "findNearestNode" =>
    LET x == last.args[1]
        y == last.args[2]
        maxDistSq == Times(last.args[3], last.args[3])
        r == last.ret
    IN /\ graph.nodeCount = 0 => r = -1
       /\ r = -1 <=> \A k \in LiveNodes(graph) : ~Below(NodeDistSq(graph, k, x, y), maxDistSq)
       /\ r # -1 =>
            /\ r \in LiveNodes(graph)
            /\ AtMost(NodeDistSq(graph, r, x, y), maxDistSq)
            /\ \A k \in LiveNodes(graph) :
                 /\ ~Below(NodeDistSq(graph, k, x, y), NodeDistSq(graph, r, x, y))
                 /\ NodeDistSq(graph, k, x, y) = NodeDistSq(graph, r, x, y) => r <= k

\* C22 witness: nodes 0 and 1 lie at different places at the same distance
\* from the probe point, within maxDist, and node 0 is returned.
C22_Witness ==
  /\ last.op = "findNearestNode"
  /\ graph.nodeCount = 2
  /\ NodePosition(graph, 0) # NodePosition(graph, 1)
  /\ NodeDistSq(graph, 0, last.args[1], last.args[2])
       = NodeDistSq(graph, 1, last.args[1], last.args[2])
  /\ last.args[3] # Infinity
  /\ last.ret = 0

\* ------------------------------------------------------------- clean-up
\* The nodes of g that no stored edge names.
Isolated(g) == {n \in LiveNodes(g) : \A e \in LiveEdges(g) : n \notin EdgePair(g, e)}

\* C23: removeIsolatedNodes() on an arena that satisfies the edge invariants
\* leaves no node of degree zero, keeps every node that had an edge, with its
\* position, keeps edgeCount and every edge between the same two nodes, and
\* returns the number of zero-degree nodes there were, which is the decrease
\* of nodeCount; a second call would return 0 and change nothing.
C23_RemoveIsolatedNodes ==
  [][last'.op = "removeIsolatedNodes" /\ EdgeInvariants(graph) =>
       /\ DistinctPositions(graph)
       /\ last'.ret = Cardinality(Isolated(graph))
       /\ last'.ret = graph.nodeCount - graph'.nodeCount
       /\ RemovedExactly(graph, graph', Isolated(graph), {})
       /\ graph'.edgeCount = graph.edgeCount
       /\ Isolated(graph') = {}
       /\ EdgeInvariants(graph')
       /\ removeIsolatedNodes(graph') = [g |-> graph', ret |-> 0]]_vars

\* C23 witness: removeIsolatedNodes removed a node and moved the node loaded
\* at index 3 into slot 0, where its edge now ends.
C23_Witness ==
  /\ last.op = "removeIsolatedNodes"
  /\ last.ret >= 1
  /\ graph.nodeCount >= 2
  /\ Position(graph, 0) = <<3, 4>>
  /\ \E e \in LiveEdges(graph) : 0 \in EdgePair(graph, e)
  /\ EdgeInvariants(graph)

\* The nodes that findGiantComponent leaves outside the giant component.
OutsideGiant(g, r) == {n \in LiveNodes(g) : r.componentIds[n] # r.giantComponentId}

\* C24: keepOnlyGiantComponent() on an arena that satisfies the edge
\* invariants keeps exactly the nodes that findGiantComponent labelled with
\* the giant id before the call, with their positions, and exactly the edges
\* among them; any two surviving nodes are joined by a path (at most one
\* component is left), and the call returns the former nodeCount minus the
\* size of the giant component.
C24_KeepOnlyGiantComponent ==
  [][last'.op = "keepOnlyGiantComponent" /\ EdgeInvariants(graph) =>
       /\ DistinctPositions(graph)
       /\ RemovedExactly(graph, graph', OutsideGiant(graph, findGiantComponent(graph)), {})
       /\ graph'.nodeCount = findGiantComponent(graph).giantComponentSize
       /\ last'.ret = graph.nodeCount - findGiantComponent(graph).giantComponentSize
       /\ \A a \in LiveNodes(graph'), b \in LiveNodes(graph') : PathJoins(graph', a, b)
       /\ computeConnectedComponents(graph').numComponents <= 1
       /\ EdgeInvariants(graph')]_vars

\* C24 witness: keepOnlyGiantComponent removed a node and kept a component
\* of three nodes and two edges, the node loaded at index 3 now in slot 0.
C24_Witness ==
  /\ last.op = "keepOnlyGiantComponent"
  /\ last.ret = 1
  /\ graph.nodeCount = 3
  /\ graph.edgeCount = 2
  /\ Position(graph, 0) = <<3, 4>>
  /\ EdgeInvariants(graph)

\* ------------------------------------------------------ read-side frame
ReadSide ==
  {"hasEdge", "findEdge", "getNeighbors", "getEdgesForNode", "findNearestNode",
   "findNodesInRadius", "findNodesInBox", "findNearestEdge", "buildAdjacencyList",
   "computeConnectedComponents", "findGiantComponent", "getGiantComponentNodes",
   "computeStatistics"}

C26_LoadReplaces ==
  [][last'.op = "loadFromArrow" =>
       LET nodes == last'.args[1]
           edges == last'.args[2]
       IN /\ graph'.nodeCount = Len(nodes)
          /\ graph'.edgeCount = Len(edges)
          /\ \A i \in LiveNodes(graph') :
               NodeAttrs(graph', i) = <<nodes[i + 1][1], nodes[i + 1][2], 0, 0>>
          /\ \A e \in LiveEdges(graph') :
               /\ ElementIs(graph'.edgeSource, e, edges[e + 1][1])
               /\ ElementIs(graph'.edgeTarget, e, edges[e + 1][2])
          /\ graph'.nodeCapacity >= Len(nodes)
          /\ graph'.edgeCapacity >= Len(edges)
          /\ graph'.nodeCapacity >= graph.nodeCapacity
          /\ graph'.edgeCapacity >= graph.edgeCapacity
          /\ Length(graph'.nodeX) = graph'.nodeCapacity
          /\ Length(graph'.edgeSource) = graph'.edgeCapacity
          /\ graph'.version > graph.version]_vars

\* C26 witness: the second load brought fewer nodes than the first; the slot
\* behind the new rows still holds a former node's x, which is not live.
C26_Witness ==
  /\ last.op = "loadFromArrow"
  /\ graph.version = 2
  /\ graph.nodeCount = 1
  /\ graph.edgeCount = 0
  /\ graph.nodeCapacity >= 2
  /\ graph.nodeX[1] # 0

\* ------------------------------------------------------- MoveNodeCommand
\* C27: for a MoveNodeCommand on a node of the arena, updateTarget leaves the
\* arena as it is; execute puts the node at the target set last (the one of
\* the constructor when none was set since); undo, after any number of
\* updateTarget and execute calls, puts the node back where it was when the
\* command was constructed, and no other node, no edge and no count differs
\* from then.
C27_MoveNodeCommand ==
  [][/\ last'.op = "updateTarget" => graph' = graph
     /\ (last'.op = "execute" /\ history'.undoStack # <<>>) =>
          Position(graph', Top(history'.undoStack).nodeIdx) = PointFor(last'.args[1])
     /\ (last'.op = "cmd.execute" /\ last.op = "updateTarget") =>
          Position(graph', Top(history.undoStack).nodeIdx) = last.args
     /\ (last'.op = "cmd.execute" /\ last.op # "updateTarget") =>
          Position(graph', Top(history.undoStack).nodeIdx)
            = Position(graph, Top(history.undoStack).nodeIdx)
     /\ last'.op \in {"execute", "cmd.execute"} =>
          graph' = [graph EXCEPT
                      !.nodeX = graph'.nodeX, !.nodeY = graph'.nodeY,
                      !.version = graph'.version]
     /\ (last'.op = "undo" /\ calls' # <<>>) =>
          graph' = [graph0 EXCEPT !.version = graph'.version]]_vars

\* C27 witness: the command was retargeted to <<2, 3>> and executed again,
\* then undone, on an arena with another node and an edge.
C27_Witness ==
  /\ last.op = "undo"
  /\ calls # <<>>
  /\ history.redoStack # <<>>
  /\ Top(history.redoStack).newX = 2
  /\ graph.version >= graph0.version + 3
  /\ graph.nodeCount >= 2
  /\ graph.edgeCount >= 1

\* ----------------------------------------------------- BatchDeleteCommand
\* undo() just returned the BatchDeleteCommand that was the one command
\* executed, and the call before it was that execute.
UndidBatchDelete ==
  /\ UndoRightAfterExecute /\ phase.executed = 1
  /\ last.ret # <<>>
  /\ last.ret[1].type = "BatchDelete"

\* C28: BatchDeleteCommand(graph, N, E) for any selection of nodes and edges
\* of the arena, executed and then undone, leaves nodeCount, edgeCount and
\* the adjacency of the arena before the command, up to relabeling of
\* indices.
C28_BatchDeleteUndoConnectivity ==
  UndidBatchDelete => SameUpToRelabeling(graph0, graph)


\* The members of a list.
Members(l) == {l[k] : k \in DOMAIN l}

\* The arena after removeEdge / removeNode for the sub-commands k, k + 1, ...
\* of a batch, one after the other.
RECURSIVE RemovedInOrder(_, _, _)
RemovedInOrder(commands, g, k) ==
  IF k > Len(commands) THEN g
  ELSE RemovedInOrder(commands,
                      IF commands[k].type = "RemoveEdge"
                      THEN removeEdge(g, commands[k].edgeIdx).g
                      ELSE removeNode(g, commands[k].nodeIdx).g,
                      k + 1)

\* The arena after the undo of the sub-commands k, k - 1, ..., 1 of a batch,
\* one after the other.
RECURSIVE UndoneInReverse(_, _, _)
UndoneInReverse(commands, g, k) ==
  IF k < 1 THEN g
  ELSE UndoneInReverse(commands,
                       IF commands[k].type = "RemoveEdge"
                       THEN RemoveEdgeUndo(commands[k], g).g
                       ELSE RemoveNodeUndo(commands[k], g).g,
                       k - 1)

\* C29: whatever the order of the two lists handed to BatchDeleteCommand, its
\* sub-commands are one RemoveEdgeCommand per edge index, in strictly
\* descending order of the index, followed by one RemoveNodeCommand per node
\* index, in strictly descending order of the index; execute() has the effect
\* of running them in that order, undo() that of running their undo in the
\* reverse order; and the two lists of the caller are as they were.
C29_BatchOrder ==
  [][/\ (last'.op = "execute" /\ last.op = "select") =>
          LET nodes == last.args[1]
              edges == last.args[2]
              commands == Top(history'.undoStack).commands
              ne == Len(edges)
          IN /\ Len(commands) = ne + Len(nodes)
             /\ \A k \in 1 .. ne : commands[k].type = "RemoveEdge"
             /\ {commands[k].edgeIdx : k \in 1 .. ne} = Members(edges)
             /\ \A k \in 1 .. ne - 1 : commands[k].edgeIdx > commands[k + 1].edgeIdx
             /\ \A k \in ne + 1 .. Len(commands) : commands[k].type = "RemoveNode"
             /\ {commands[k].nodeIdx : k \in ne + 1 .. Len(commands)} = Members(nodes)
             /\ \A k \in ne + 1 .. Len(commands) - 1 :
                  commands[k].nodeIdx > commands[k + 1].nodeIdx
             /\ graph' = RemovedInOrder(commands, graph, 1)
             /\ last'.args[2] = nodes
             /\ last'.args[3] = edges
     /\ (last'.op = "undo" /\ last.op = "execute" /\ calls' # <<>>) =>
          LET commands == Top(history.undoStack).commands
          IN graph' = UndoneInReverse(commands, graph, Len(commands))]_vars

\* C29 witness: the selection named the nodes in the order 1, 2, 0 and the
\* edges in the order 0, 1; the batch holds the removals of edges 1, 0 and of
\* nodes 2, 1, 0, it was executed, and the two lists are as they were.
C29_Witness ==
  /\ last.op = "execute"
  /\ Len(last.args) = 3
  /\ last.args[2] = <<1, 2, 0>>
  /\ last.args[3] = <<0, 1>>
  /\ history.undoStack # <<>>
  /\ Len(Top(history.undoStack).commands) = 5
  /\ [k \in 1 .. 5 |-> IF k <= 2 THEN Top(history.undoStack).commands[k].edgeIdx
                       ELSE Top(history.undoStack).commands[k].nodeIdx]
       = <<1, 0, 2, 1, 0>>
  /\ graph.nodeCount = 0

\* ------------------------------------------------------- edge commands
\* Every array of the nodes, nodeCount and nodeCapacity are those of the
\* arena before the command.
NodesUntouched ==
  /\ graph.nodeCount = graph0.nodeCount
  /\ graph.nodeCapacity = graph0.nodeCapacity
  /\ graph.nodeX = graph0.nodeX
  /\ graph.nodeY = graph0.nodeY
  /\ graph.nodeVX = graph0.nodeVX
  /\ graph.nodeVY = graph0.nodeVY

\* The command that undo() just returned was the one command executed, and
\* the call before the undo was that execute.
UndidTheCommand ==
  /\ UndoRightAfterExecute /\ phase.executed = 1
  /\ last.ret # <<>>

\* C30: an AddEdgeCommand executed and undone at once leaves edgeCount and
\* every stored edge in its slot with its source and target; a
\* RemoveEdgeCommand on an edge of the arena executed and undone at once
\* leaves edgeCount and the set of unordered endpoint pairs; neither changes
\* a node.
C30_EdgeCommandsReversible ==
  UndidTheCommand =>
    /\ last.ret[1].type = "AddEdge" =>
         /\ NodesAndEdgesAsBefore
         /\ NodesUntouched
    /\ last.ret[1].type = "RemoveEdge" =>
         /\ graph.edgeCount = graph0.edgeCount
         /\ EdgePairs(graph) = EdgePairs(graph0)
         /\ NodesUntouched

\* C30 witness: of two stored edges the one in slot 0 was removed and put
\* back; it now sits in slot 1.
C30_Witness ==
  /\ UndidTheCommand
  /\ last.ret[1].type = "RemoveEdge"
  /\ last.ret[1].edgeIdx = 0
  /\ graph.edgeCount = 2
  /\ EdgePair(graph, 1) = EdgePair(graph0, 0)
  /\ EdgePair(graph, 0) = EdgePair(graph0, 1)

\* ---------------------------------------------------- autoConnectNearby
\* The squared distance between nodes i and j.
PairDistSq(g, i, j) ==
  (g.nodeX[i] - g.nodeX[j]) * (g.nodeX[i] - g.nodeX[j])
    + (g.nodeY[i] - g.nodeY[j]) * (g.nodeY[i] - g.nodeY[j])

\* C31: autoConnectNearby(maxDistance), maxDistance >= 0, on an arena that
\* satisfies the edge invariants: afterwards every two distinct nodes at a
\* distance of at most maxDistance are joined, every edge stored before is
\* still stored, the edge invariants hold, every pair joined by the call is
\* at a distance of at most maxDistance, and the number returned is the
\* increase of edgeCount.
C31_AutoConnectNearby ==
  [][(last'.op = "autoConnectNearby" /\ EdgeInvariants(graph)) =>
       LET within(i, j) == PairDistSq(graph, i, j) <= last'.args[1] * last'.args[1]
       IN /\ \A i, j \in LiveNodes(graph) :
               (i # j /\ within(i, j)) => {i, j} \in EdgePairs(graph')
          /\ \A e \in LiveEdges(graph) :
               /\ graph'.edgeSource[e] = graph.edgeSource[e]
               /\ graph'.edgeTarget[e] = graph.edgeTarget[e]
          /\ EdgeInvariants(graph')
          /\ \A e \in LiveEdges(graph') \ LiveEdges(graph) :
               within(graph'.edgeSource[e], graph'.edgeTarget[e])
          /\ last'.ret = graph'.edgeCount - graph.edgeCount
          /\ graph'.nodeCount = graph.nodeCount]_vars

\* C31 witness: four nodes in a row, the first two joined before the call;
\* autoConnectNearby(3) added the two edges between the other neighbours,
\* which are exactly at distance 3, and none between nodes farther apart.
C31_Witness ==
  /\ last.op = "autoConnectNearby"
  /\ last.args = <<3>>
  /\ last.ret = 2
  /\ graph.nodeCount = 4
  /\ graph.edgeCount = 3
  /\ EdgePairs(graph) = {{0, 1}, {1, 2}, {2, 3}}
  /\ EdgePair(graph, 0) = {0, 1}

\* ----------------------------------------------------- computeStatistics
\* The components of g: the sets of nodes joined by paths of stored edges.
Components(g) == {Closure(g, {n}) : n \in LiveNodes(g)}

\* The largest of a finite set of naturals, 0 for the empty set.
Largest(S) == IF S = {} THEN 0 ELSE CHOOSE v \in S : \A w \in S : w <= v

\* C32: computeStatistics returns the counts of the arena as nodeCount and
\* edgeCount, the number of nodes that no stored edge names as isolatedNodes,
\* an average degree whose total is 2 * edgeCount, the size of the largest
\* component as giantComponentSize and the number of components as
\* numComponents; every field is 0 on the empty arena; under the edge
\* invariants isolatedNodes is the number of components of size 1.
C32_ComputeStatistics ==
  last.op = "computeStatistics" =>
    LET s == last.ret
        total == IF graph.nodeCount > 0 THEN s.avgDegree[1] ELSE 0
    IN /\ s.nodeCount = graph.nodeCount
       /\ s.edgeCount = graph.edgeCount
       /\ s.isolatedNodes = Cardinality(Isolated(graph))
       /\ total = 2 * graph.edgeCount
       /\ graph.nodeCount > 0 => s.avgDegree[2] = graph.nodeCount
       /\ s.giantComponentSize
            = Largest({Cardinality(c) : c \in Components(graph)})
       /\ s.numComponents = Cardinality(Components(graph))
       /\ graph.nodeCount = 0 =>
            s = [nodeCount |-> 0, edgeCount |-> 0, numComponents |-> 0,
                 giantComponentSize |-> 0, giantComponentPercent |-> Num(0),
                 avgDegree |-> Num(0), isolatedNodes |-> 0]
       /\ EdgeInvariants(graph) =>
            s.isolatedNodes
              = Cardinality({c \in Components(graph) : Cardinality(c) = 1})

\* C32 witness: four nodes, two of them joined, one with an edge to itself
\* and one that no edge names: three components, the largest of size 2, one
\* isolated node though two components have size 1.
C32_Witness ==
  /\ last.op = "computeStatistics"
  /\ graph.nodeCount = 4
  /\ graph.edgeCount = 2
  /\ last.ret.numComponents = 3
  /\ last.ret.giantComponentSize = 2
  /\ last.ret.isolatedNodes = 1
  /\ last.ret.avgDegree = <<4, 4>>

\* -------------------------------------------------- radius and box queries
\* The list names its members in strictly ascending order.
StrictlyAscending(l) == \A k \in 1 .. Len(l) - 1 : l[k] < l[k + 1]

\* C33: findNodesInRadius(x, y, r) returns, in ascending order, exactly the
\* nodes whose squared distance to (x, y) is at most r * r, and
\* findNodesInBox(minX, minY, maxX, maxY), in ascending order, exactly the
\* nodes with minX <= x <= maxX and minY <= y <= maxY; neither returns an
\* index that is not below nodeCount, whatever the slots behind it hold.
C33_RadiusAndBox ==
  /\ last.op = "findNodesInRadius" =>
       /\ StrictlyAscending(last.ret)
       /\ Members(last.ret)
            = {i \in LiveNodes(graph) :
                 AtMost(NodeDistSq(graph, i, last.args[1], last.args[2]),
                        Times(last.args[3], last.args[3]))}
  /\ last.op = "findNodesInBox" =>
       /\ StrictlyAscending(last.ret)
       /\ Members(last.ret)
            = {i \in LiveNodes(graph) :
                 /\ last.args[1] <= graph.nodeX[i] /\ graph.nodeX[i] <= last.args[3]
                 /\ last.args[2] <= graph.nodeY[i] /\ graph.nodeY[i] <= last.args[4]}

\* C33 witness: of two loaded nodes the first was removed; the one left sits
\* in slot 0, on the border of the circle asked for, and slot 1 still holds
\* its former position; findNodesInRadius returned node 0 alone.
C33_Witness ==
  /\ last.op = "findNodesInRadius"
  /\ last.args = <<1, 0, Num(1)>>
  /\ last.ret = <<0>>
  /\ graph.nodeCount = 1
  /\ graph.nodeCapacity >= 2
  /\ Position(graph, 0) = <<2, 0>>
  /\ Position(graph, 1) = <<2, 0>>

\* ------------------------------------------------------ frame of updateNode
\* C34: updateNode(i, x, y) with i in range writes nodeX[i] and nodeY[i] and
\* increments version; the velocity of node i, every slot of every other
\* node, both edge arrays, both counts and both capacities are as before.
C34_UpdateNodeFrame ==
  [][(last'.op = "updateNode" /\ last'.args[1] \in LiveNodes(graph)) =>
       LET i == last'.args[1]
       IN /\ last'.ret = TRUE
          /\ Position(graph', i) = <<last'.args[2], last'.args[3]>>
          /\ DOMAIN graph'.nodeX = DOMAIN graph.nodeX
          /\ DOMAIN graph'.nodeY = DOMAIN graph.nodeY
          /\ \A j \in DOMAIN graph.nodeX \ {i} :
               Position(graph', j) = Position(graph, j)
          /\ graph'.nodeVX = graph.nodeVX
          /\ graph'.nodeVY = graph.nodeVY
          /\ graph'.edgeSource = graph.edgeSource
          /\ graph'.edgeTarget = graph.edgeTarget
          /\ graph'.nodeCount = graph.nodeCount
          /\ graph'.edgeCount = graph.edgeCount
          /\ graph'.nodeCapacity = graph.nodeCapacity
          /\ graph'.edgeCapacity = graph.edgeCapacity
          /\ graph'.version = graph.version + 1]_vars

\* C34 witness: node 1 of three, which has the velocity <<1, -1>> and an
\* edge, was moved to <<2, 3>> and has that velocity still.
C34_Witness ==
  /\ last.op = "updateNode"
  /\ last.args = <<1, 2, 3>>
  /\ last.ret = TRUE
  /\ graph.nodeCount = 3
  /\ graph.edgeCount >= 1
  /\ NodeAttrs(graph, 1) = <<2, 3, 1, -1>>

\* ------------------------------------------------------ frame of removeEdge
\* C35: removeEdge(e) with e in range lowers edgeCount by 1, leaves
\* nodeCount and every node array as they were, and the unordered endpoint
\* pairs stored afterwards are those stored before without the pair of edge
\* e; every edge other than the former last one keeps its index, and the
\* former last one, when it was not e, sits at e.
C35_RemoveEdgeFrame ==
  [][(last'.op = "removeEdge" /\ last'.args[1] \in LiveEdges(graph)) =>
       LET e == last'.args[1]
           lastIdx == graph.edgeCount - 1
       IN /\ last'.ret = TRUE
          /\ graph'.edgeCount = graph.edgeCount - 1
          /\ graph'.nodeCount = graph.nodeCount
          /\ graph'.nodeCapacity = graph.nodeCapacity
          /\ graph'.nodeX = graph.nodeX /\ graph'.nodeY = graph.nodeY
          /\ graph'.nodeVX = graph.nodeVX /\ graph'.nodeVY = graph.nodeVY
          /\ EdgePairs(graph') = EdgePairs(graph) \ {EdgePair(graph, e)}
          /\ \A k \in LiveEdges(graph') \ {e} :
               /\ graph'.edgeSource[k] = graph.edgeSource[k]
               /\ graph'.edgeTarget[k] = graph.edgeTarget[k]
          /\ e # lastIdx =>
               /\ graph'.edgeSource[e] = graph.edgeSource[lastIdx]
               /\ graph'.edgeTarget[e] = graph.edgeTarget[lastIdx]
          /\ graph'.version = graph.version + 1]_vars

\* C35 witness: of two stored edges the first was removed; the former last
\* one sits in slot 0, and a node has a velocity.
C35_Witness ==
  /\ last.op = "removeEdge"
  /\ last.args = <<0>>
  /\ last.ret = TRUE
  /\ graph.edgeCount = 1
  /\ graph.nodeCount = 3
  /\ graph.edgeCapacity >= 2
  /\ EdgePair(graph, 0) = EdgePair(graph0, 1)
  /\ EdgePair(graph0, 0) # EdgePair(graph0, 1)
  /\ \E i \in LiveNodes(graph) : graph.nodeVX[i] = 1

\* ------------------------------------------------------- history size
\* C36: in every state reached through execute, undo, redo and clear of a
\* CommandHistory, the undo stack and the redo stack together hold at most
\* maxHistory commands.
C36_StacksBound ==
  Len(history.undoStack) + Len(history.redoStack) <= history.maxHistory

\* C36 witness: redo() has just moved a command back to the undo stack, and
\* the two stacks together hold maxHistory = 2 commands, one each.
C36_Witness ==
  /\ last.op = "redo"
  /\ last.ret # <<>>
  /\ history.maxHistory = 2
  /\ Len(history.undoStack) = 1
  /\ Len(history.redoStack) = 1

\* ------------------------------------------------------------------ redo
\* C37: for a command of any class, history.execute(cmd), history.undo() and
\* history.redo() one after the other leave the graph that execute(cmd)
\* alone leaves, up to relabeling of indices: the same nodes at their
\* positions, joined by the same edges.
C37_RedoReapplies ==
  [][(/\ UndoRightAfterExecute /\ phase.executed = 1
      /\ last.ret # <<>>
      /\ last'.op = "redo")
     => SameUpToRelabeling(CommandExecute(last.ret[1], graph0).g, graph')]_vars

\* ------------------------------------------------------ rejected commands
\* h has the counts of g, every node of g at its position and every edge of
\* g in its slot.
ContentAsIn(g, h) ==
  /\ h.nodeCount = g.nodeCount
  /\ h.edgeCount = g.edgeCount
  /\ \A j \in LiveNodes(g) : Position(h, j) = Position(g, j)
  /\ \A i \in LiveEdges(g) :
       /\ h.edgeSource[i] = g.edgeSource[i]
       /\ h.edgeTarget[i] = g.edgeTarget[i]

\* C38: a command whose execute() the arena rejected (the arena after
\* history.execute is the arena before it, version included) changes nothing
\* when undone: nodeCount, edgeCount, the positions of the nodes and the
\* edges are those before the execute.
C38_RejectedUndo ==
  [][(/\ last.op = "execute" /\ phase.executed = 1
      /\ graph = graph0
      /\ last'.op = "undo")
     => ContentAsIn(graph0, graph')]_vars

\* --------------------------------------------------------- neighbour views
\* C39: in every reachable state and for every node i, getNeighbors(i) is
\* the list buildAdjacencyList() holds for i, element by element, it is as
\* long as getEdgesForNode(i), and on an arena that satisfies the edge
\* invariants it names j exactly when hasEdge(i, j), and no node twice.
C39_NeighborViewsAgree ==
  \A i \in LiveNodes(graph) :
     /\ getNeighbors(graph, i) = buildAdjacencyList(graph)[i]
     /\ Len(getNeighbors(graph, i)) = Len(getEdgesForNode(graph, i))
     /\ EdgeInvariants(graph) =>
          /\ \A j \in LiveNodes(graph) :
               Includes(getNeighbors(graph, i), j) <=> hasEdge(graph, i, j)
          /\ \A a, b \in 1 .. Len(getNeighbors(graph, i)) :
               a # b => getNeighbors(graph, i)[a] # getNeighbors(graph, i)[b]

\* ------------------------------------------------ nearest node and radius
\* C40: for every arena, point (x, y) and distance d >= 0,
\* findNearestNode(x, y, d) returns -1 exactly when findNodesInRadius(x, y, d)
\* is empty, and a node it returns is one of those findNodesInRadius(x, y, d)
\* returns.
C40_NearestAgreesWithRadius ==
  \A p \in ProbePoints, d \in ProbeDistances :
     /\ findNearestNode(graph, p[1], p[2], d) = -1
          <=> findNodesInRadius(graph, p[1], p[2], d) = <<>>
     /\ findNearestNode(graph, p[1], p[2], d) # -1 =>
          findNearestNode(graph, p[1], p[2], d)
            \in Members(findNodesInRadius(graph, p[1], p[2], d))

====
